---- MODULE Spec2Model ----
(***************************************************************************)
(* Model of weaver.  Of the FileReader agent (src/src/file_reader.rs): the *)
(* delegation scheduler (run_delegate_batch), the conversation loop        *)
(* (run_conversation), the tool executor (execute_tool) and the path       *)
(* sandbox (resolve_path).  Of the learning graph: the GraphAdder actor    *)
(* (src/src/adder.rs) over its GraphStore (src/src/graph.rs).              *)
(*                                                                         *)
(* The module holds one specification per component.  Every specification  *)
(* owns its variables and leaves the others at their idle values:          *)
(*   SpecBatch  one call of run_delegate_batch, child conversations        *)
(*              abstracted to their outcome (Ok, Err or a panic);          *)
(*   SpecLoop   one call of run_conversation, the backend abstracted to    *)
(*              the responses it can give;                                 *)
(*   SpecDelegate  run_conversation of a parent Agent whose batches run    *)
(*              step by step inside its tool calls;                        *)
(*   SpecTool   one call of execute_tool;                                  *)
(*   SpecPath   one call of resolve_path over a small file system;         *)
(*   SpecNodes  a GraphAdder handling AddNodes messages;                   *)
(*   SpecGraph  a GraphAdder handling AddNodes and AddEdges messages.      *)
(***************************************************************************)
EXTENDS Integers, Sequences, FiniteSets, TLC

VARIABLES
    \* ---- run_delegate_batch ----
    subtasks,     \* the Vec<String> handed to run_delegate_batch
    batch_pc,     \* "start", "joining" (awaiting join_next) or "returned"
    limit,        \* the concurrency limit computed at the top
    pending,      \* index of the next subtask the `pending` iterator yields
    active,       \* the `active` counter
    join_set,     \* per index: the spawned task's state, subtask and outcome
    results,      \* Vec<Option<Value>>, by original index
    batch_ret,    \* Option<Result<Value>>: what run_delegate_batch returned
    spawn_log,    \* the calls of spawn_delegate_task so far, in order: the index
                  \* spawned and the number of children joined before the call
    \* ---- the Agent (struct FileReader) ----
    root,         \* FileReader.root: the canonical workspace root
    depth,        \* FileReader.depth
    max_subdelegations,   \* FileReader.max_subdelegations
    model,        \* FileReader.model: the value of OPENAI_MODEL
    \* ---- resolve_path ----
    path_arg,     \* the `relative` argument of resolve_path
    path_pc,      \* "call" or "returned"
    path_ret,     \* Option<Result<PathBuf>>: what resolve_path returned
    \* ---- execute_tool ----
    tool_call,    \* the ChatCompletionMessageToolCall handed to execute_tool
    tool_pc,      \* "call" or "returned"
    tool_out,     \* Option of the outcome: Result, children spawned, handler run
    tool_msg,     \* Option of the tool message built from that Result
    \* ---- run_conversation ----
    messages,     \* the conversation: Vec<ChatCompletionRequestMessage>
    iteration,    \* the loop counter of 'retry
    loop_pc,      \* "awaiting" (request in flight), "backoff" (sleeping),
                  \* "executing" (in execute_tool), "done" or "failed"
    response,     \* what the backend answered in this iteration
    call_idx,     \* position in tool_calls of the call being executed
    loop_ret,     \* Option<Result<String>>: what run_conversation returned
    requests,     \* backend requests sent so far
    spawned,      \* child Agents spawned so far by this Agent's tool calls
    delay_ms,     \* the delay of the last backoff sleep
    in_flight,    \* this Agent's backend requests sent and neither answered nor dropped
    request,      \* the messages of the request sent last
    got_response, \* llm_request_ok has been logged in this run: some request got a response
    \* ---- the GraphAdder actor (src/src/adder.rs) ----
    store,        \* GraphAdder.store: nodes, edges, text_index, id_index
    uuids,        \* number of Uuid::new_v4() values drawn so far
    graph_msg,    \* the message handled last: AddNodes or AddEdges with its proposals
    decisions,    \* Option of the reply to that message: Vec<Decision>
    \* ---- the delegation tree (src/src/file_reader.rs) ----
    tree,         \* the Agents alive: the top-level Agent, and under every Agent
                  \* in run_delegate_batch the children in its JoinSet
    tree_last     \* the step taken last in the tree and the depth of the Agent that took it

batch_vars ==
    <<subtasks, batch_pc, limit, pending, active, join_set, results, batch_ret, spawn_log>>
path_vars == <<path_arg, path_pc, path_ret>>
tool_vars == <<tool_call, tool_pc, tool_out, tool_msg>>
loop_vars ==
    <<messages, iteration, loop_pc, response, call_idx, loop_ret, requests, spawned, delay_ms,
      in_flight, request, got_response>>
agent_vars == <<root, depth, max_subdelegations, model>>
graph_vars == <<store, uuids, graph_msg, decisions>>
tree_vars == <<tree, tree_last>>

vars == <<agent_vars, batch_vars, path_vars, tool_vars, loop_vars, graph_vars, tree_vars>>

\* ------------------------------------------------------------------------
\* Program constants (src/src/constants.rs)
MAX_TOOL_ITERATIONS == 60
RETRY_BASE_DELAY_MS == 250
RETRY_MAX_JITTER_MS == 250
RETRY_MAX_EXP == 6
DEFAULT_MAX_SUBDELEGATIONS == 2
DEFAULT_PARALLEL_DELEGATIONS == 4
MAX_PARALLEL_DELEGATIONS == 8

\* ------------------------------------------------------------------------
\* Bounds of the model
MaxSubtasks == 5
\* longest path argument, in components
MaxPathLen == 3
\* most tool calls in one assistant turn
MaxCalls == 2
\* longest conversation for which a turn with tool calls is still explored
MaxMessages == 5
\* symbolic links followed by one canonicalize before it gives up (ELOOP)
MaxSymlinkHops == 6
\* edges in the store
MaxEdges == 3
\* most subtasks one delegate_subtask call names in the delegation tree
MaxTreeSubtasks == 5

\* ------------------------------------------------------------------------
\* Rust's Option and Result
None == <<>>
Some(v) == <<v>>
IsSome(o) == o # <<>>
Unwrap(o) == o[1]

Ok(v) == [ok |-> TRUE, value |-> v]
Err(e) == [ok |-> FALSE, error |-> e]

Min(a, b) == IF a <= b THEN a ELSE b
Max(a, b) == IF a >= b THEN a ELSE b
\* usize::clamp(self, lo, hi)
Clamp(x, lo, hi) == IF x < lo THEN lo ELSE IF x > hi THEN hi ELSE x

\* ------------------------------------------------------------------------
\* Idle values of the scheduler's variables, for the other specifications
BatchIdle ==
    /\ subtasks = <<>>
    /\ batch_pc = "idle"
    /\ limit = 0
    /\ pending = 0
    /\ active = 0
    /\ join_set = <<>>
    /\ results = <<>>
    /\ batch_ret = None
    /\ spawn_log = <<>>

LoopIdle ==
    /\ messages = <<>>
    /\ iteration = 0
    /\ loop_pc = "idle"
    /\ response = [kind |-> "none"]
    /\ call_idx = 0
    /\ loop_ret = None
    /\ requests = 0
    /\ spawned = 0
    /\ delay_ms = 0
    /\ in_flight = 0
    /\ request = <<>>
    /\ got_response = FALSE

ToolIdle ==
    /\ tool_call = <<>>
    /\ tool_pc = "idle"
    /\ tool_out = None
    /\ tool_msg = None

\* no delegation tree followed
TreeIdle ==
    /\ tree = <<>>
    /\ tree_last = [kind |-> "none"]

\* GraphStore::new(), and no message handled
GraphIdle ==
    /\ store = [nodes |-> <<>>, edges |-> <<>>, text_index |-> <<>>, id_index |-> <<>>]
    /\ uuids = 0
    /\ graph_msg = [kind |-> "none"]
    /\ decisions = <<>>

\* ------------------------------------------------------------------------
\* The file system resolve_path works on, and std::fs::canonicalize

\* Inodes: a directory tree with files and symbolic links.  The workspace
\* lives at /ws; /etc is outside it.
\*   1 /            5 /ws/in   -> a        9 /etc/f.txt
\*   2 /ws          6 /ws/out  -> /etc    10 /etc/back -> /ws/a
\*   3 /ws/a        7 /ws/up   -> ..      11 /ws/a/loop -> loop
\*   4 /ws/a/f.txt  8 /etc
Inodes == 1..11
RootInode == 1
FsName == <<"", "ws", "a", "f.txt", "in", "out", "up", "etc", "f.txt", "back", "loop">>
FsParent == <<1, 1, 2, 3, 2, 2, 2, 1, 8, 8, 3>>
FsKind == <<"dir", "dir", "dir", "file", "symlink", "symlink", "symlink",
            "dir", "file", "symlink", "symlink">>
\* A path: absolute or relative, and its components
AbsPath(comps) == [abs |-> TRUE, comps |-> comps]
RelPath(comps) == [abs |-> FALSE, comps |-> comps]
FsLinkTarget(n) ==
    CASE n = 5 -> RelPath(<<"a">>)
      [] n = 6 -> AbsPath(<<"etc">>)
      [] n = 7 -> RelPath(<<"..">>)
      [] n = 10 -> AbsPath(<<"ws", "a">>)
      [] n = 11 -> RelPath(<<"loop">>)

\* The entry named c in directory d, as a set (empty: no such entry)
Lookup(d, c) == {n \in Inodes : n # RootInode /\ FsParent[n] = d /\ FsName[n] = c}

\* The absolute path of an inode, by its chain of parents
RECURSIVE PathOf(_)
PathOf(n) == IF n = RootInode THEN <<>> ELSE Append(PathOf(FsParent[n]), FsName[n])

\* The inode of a canonical path
InodeAt(p) == CHOOSE n \in Inodes : PathOf(n) = p.comps

\* n is directory r or lies below it in the directory tree
RECURSIVE IsUnder(_, _)
IsUnder(n, r) == n = r \/ (n # RootInode /\ IsUnder(FsParent[n], r))

\* Path resolution as the kernel does it: walk the components from directory
\* cur, following symbolic links; "none" when a component is missing, a
\* non-directory is traversed, or too many links are followed.
RECURSIVE Walk(_, _, _)
Walk(cur, comps, hops) ==
    IF comps = <<>> THEN Ok(cur)
    ELSE IF FsKind[cur] # "dir" THEN Err("ENOTDIR")
    ELSE LET c == Head(comps)
             rest == Tail(comps)
         IN IF c = "." THEN Walk(cur, rest, hops)
            ELSE IF c = ".." THEN Walk(FsParent[cur], rest, hops)
            ELSE LET found == Lookup(cur, c) IN
                 IF found = {} THEN Err("ENOENT")
                 ELSE LET n == CHOOSE x \in found : TRUE IN
                      IF FsKind[n] = "symlink"
                      THEN IF hops = 0 THEN Err("ELOOP")
                           ELSE LET t == FsLinkTarget(n) IN
                                Walk(IF t.abs THEN RootInode ELSE cur,
                                     t.comps \o rest, hops - 1)
                      ELSE Walk(n, rest, hops)

\* Path::canonicalize of an absolute path: the absolute, link-free path of
\* the entry it names, or an error when there is none
Canonicalize(p) ==
    LET w == Walk(RootInode, p.comps, MaxSymlinkHops) IN
    IF w.ok THEN Ok(AbsPath(PathOf(w.value))) ELSE w

\* Path::starts_with: component-wise prefix
StartsWith(p, base) ==
    /\ p.abs = base.abs
    /\ Len(base.comps) <= Len(p.comps)
    /\ SubSeq(p.comps, 1, Len(base.comps)) = base.comps

\* Path::join
Join(base, rel) == IF rel.abs THEN rel ELSE [base EXCEPT !.comps = @ \o rel.comps]

ResolvePathLexical(rt, relative) ==
    LET candidate == IF relative.abs THEN relative ELSE Join(rt, relative)
        canonical == Canonicalize(candidate)
    IN IF ~canonical.ok THEN Err("failed to canonicalize resolved path")
       ELSE IF ~StartsWith(candidate, rt) THEN Err("path escapes workspace root")
       ELSE canonical

\* FileReader::resolve_path
ResolvePath(rt, relative) ==
    LET candidate == IF relative.abs THEN relative ELSE Join(rt, relative)
        canonical == Canonicalize(candidate)
    IN IF ~canonical.ok THEN Err("failed to canonicalize resolved path")
       ELSE IF ~StartsWith(canonical.value, rt) THEN Err("path escapes workspace root")
       ELSE canonical

\* The workspace roots explored (from_env canonicalizes the root) and the
\* path arguments: every sequence of at most MaxPathLen components
WorkspaceRoots == {AbsPath(<<"ws">>), AbsPath(<<"ws", "a">>)}
PathComponents == {".", "..", "ws", "a", "f.txt", "in", "out", "up", "etc", "back", "loop", "missing"}
IsPathArg(p, maxlen) ==
    \E n \in 0..maxlen : \E c \in [1..n -> PathComponents] :
        \E abs \in BOOLEAN : p = [abs |-> abs, comps |-> c]

PathIdle ==
    /\ path_arg = RelPath(<<>>)
    /\ path_pc = "idle"
    /\ path_ret = None

InitPath ==
    /\ BatchIdle
    /\ LoopIdle
    /\ ToolIdle
    /\ GraphIdle
    /\ TreeIdle
    /\ depth = 0
    /\ max_subdelegations = DEFAULT_MAX_SUBDELEGATIONS
    /\ root \in WorkspaceRoots
    /\ model = "model-a"
    /\ IsPathArg(path_arg, MaxPathLen)
    /\ path_pc = "call"
    /\ path_ret = None

\* One call of resolve_path
ResolvePathCall ==
    /\ path_pc = "call"
    /\ path_ret' = Some(ResolvePath(root, path_arg))
    /\ path_pc' = "returned"
    /\ UNCHANGED path_arg
    /\ UNCHANGED <<agent_vars, tree_vars, batch_vars, tool_vars, loop_vars, graph_vars>>

NextPath == ResolvePathCall

SpecPath == InitPath /\ [][NextPath]_vars

\* ------------------------------------------------------------------------
\* Text and JSON values

\* A text is a sequence of tokens: " " (white space), "\n", "/" and words.
Blank == {" ", "\n"}
RECURSIVE TrimStart(_)
TrimStart(s) == IF s # <<>> /\ Head(s) \in Blank THEN TrimStart(Tail(s)) ELSE s
RECURSIVE TrimEnd(_)
TrimEnd(s) ==
    IF s # <<>> /\ s[Len(s)] \in Blank THEN TrimEnd(SubSeq(s, 1, Len(s) - 1)) ELSE s
\* str::trim
Trim(s) == TrimEnd(TrimStart(s))

\* serde_json::Value
JStr(s) == [t |-> "string", s |-> s]
JNum(n) == [t |-> "number", n |-> n]
JArr(a) == [t |-> "array", a |-> a]
JObj(f) == [t |-> "object", o |-> f]

\* Value::get(key), Value::as_str, Value::as_u64, Value::as_array
Get(value, key) ==
    IF value.t = "object" /\ key \in DOMAIN value.o THEN Some(value.o[key]) ELSE None
AsStr(value) == IF value.t = "string" THEN Some(value.s) ELSE None
AsU64(value) == IF value.t = "number" /\ value.n >= 0 THEN Some(value.n) ELSE None
AsArray(value) == IF value.t = "array" THEN Some(value.a) ELSE None
\* args.get(key).and_then(Value::as_str), and the same with as_u64
GetStr(value, key) ==
    IF IsSome(Get(value, key)) THEN AsStr(Unwrap(Get(value, key))) ELSE None
GetU64(value, key) ==
    IF IsSome(Get(value, key)) THEN AsU64(Unwrap(Get(value, key))) ELSE None

\* The `arguments` string of a tool call: the JSON text of a value, or text
\* that is no JSON at all.  serde_json::from_str on it:
JsonText(value) == [json |-> value]
Garbage == [garbage |-> <<"{", "oops">>]
ParseJson(text) ==
    IF "json" \in DOMAIN text THEN Ok(text.json) ELSE Err("invalid JSON arguments")

\* Path::new on a text: "/" separates the components
ParsePath(s) ==
    [abs |-> s # <<>> /\ Head(s) = "/", comps |-> SelectSeq(s, LAMBDA t : t # "/")]

\* ------------------------------------------------------------------------
\* The tool handlers (src/src/tools) over the file system above

\* What the two files hold
FsContent(n) ==
    CASE n = 4 -> <<"alpha", "\n", "beta", "\n", "gamma", "\n">>
      [] n = 9 -> <<"secret">>

\* Entry names in byte order, the order list_dir sorts by
NamesInOrder == <<"a", "back", "etc", "f.txt", "in", "loop", "out", "up", "ws">>

\* filesystem::list_dir
ListDir(path) ==
    LET d == InodeAt(path) IN
    IF FsKind[d] # "dir" THEN Err("ENOTDIR")
    ELSE LET names == SelectSeq(NamesInOrder, LAMBDA c : Lookup(d, c) # {})
         IN Ok([k \in 1..Len(names) |->
                  LET n == CHOOSE x \in Lookup(d, names[k]) : TRUE IN
                  [name |-> names[k], path |-> AbsPath(PathOf(n)),
                   kind |-> IF FsKind[n] = "dir" THEN "directory" ELSE FsKind[n]]])

\* filesystem::read_file_full
ReadFileFull(path) ==
    LET n == InodeAt(path) IN
    IF FsKind[n] # "file" THEN Err("EISDIR") ELSE Ok(FsContent(n))

\* str::lines: the text between "\n" tokens; a final "\n" ends the last line
RECURSIVE Lines(_)
Lines(text) ==
    IF text = <<>> THEN <<>>
    ELSE LET nl == {k \in 1..Len(text) : text[k] = "\n"} IN
         IF nl = {} THEN <<text>>
         ELSE LET k == CHOOSE x \in nl : \A y \in nl : x <= y IN
              <<SubSeq(text, 1, k - 1)>> \o Lines(SubSeq(text, k + 1, Len(text)))

\* The for loop of read_file_range from line line_no on: lines before
\* start_line are skipped, the loop breaks after end_line, and each line in
\* between is pushed with a "\n" and recorded as first and last line
RECURSIVE ExtractLines(_, _, _, _, _)
ExtractLines(ls, line_no, start_line, end_line, acc) ==
    IF line_no > Len(ls) THEN acc
    ELSE IF line_no < start_line THEN ExtractLines(ls, line_no + 1, start_line, end_line, acc)
    ELSE IF line_no > end_line THEN acc
    ELSE ExtractLines(ls, line_no + 1, start_line, end_line,
                      [extracted |-> acc.extracted \o ls[line_no] \o <<"\n">>,
                       first_line |-> IF acc.first_line = None THEN Some(line_no)
                                      ELSE acc.first_line,
                       last_line |-> Some(line_no)])

ReadFileRangeReportsRequestedEnd(path, start_line, end_line) ==
    IF start_line = 0 THEN Err("start_line must be >= 1")
    ELSE IF end_line < start_line THEN Err("end_line must be >= start_line")
    ELSE LET n == InodeAt(path) IN
         IF FsKind[n] # "file" THEN Err("EISDIR")
         ELSE LET got == ExtractLines(Lines(FsContent(n)), 1, start_line, end_line,
                                      [extracted |-> <<>>, first_line |-> None,
                                       last_line |-> None])
              IN IF got.first_line = None THEN Err("requested range is outside the bounds")
                 ELSE Ok([path |-> path, start_line |-> start_line, end_line |-> end_line,
                          text |-> IF got.extracted # <<>>
                                      /\ got.extracted[Len(got.extracted)] = "\n"
                                   THEN SubSeq(got.extracted, 1, Len(got.extracted) - 1)
                                   ELSE got.extracted])

\* filesystem::read_file_range
ReadFileRange(path, start_line, end_line) ==
    IF start_line = 0 THEN Err("start_line must be >= 1")
    ELSE IF end_line < start_line THEN Err("end_line must be >= start_line")
    ELSE LET n == InodeAt(path) IN
         IF FsKind[n] # "file" THEN Err("EISDIR")
         ELSE LET got == ExtractLines(Lines(FsContent(n)), 1, start_line, end_line,
                                      [extracted |-> <<>>, first_line |-> None,
                                       last_line |-> None])
              IN IF got.first_line = None THEN Err("requested range is outside the bounds")
                 ELSE Ok([path |-> path,
                          start_line |-> Unwrap(got.first_line),
                          end_line |-> Unwrap(got.last_line),
                          text |-> IF got.extracted # <<>>
                                      /\ got.extracted[Len(got.extracted)] = "\n"
                                   THEN SubSeq(got.extracted, 1, Len(got.extracted) - 1)
                                   ELSE got.extracted])

\* RegexMatcher::new_line_matcher: the patterns explored are single words,
\* which match the lines holding them, and "(", which is no regex
RegexValid(pattern) == pattern # <<"(">>
LineMatches(line, pattern) ==
    \E k \in 1..Len(line) : <<line[k]>> = pattern

\* search::search_recursive: the matches in the regular files at or below
\* the start directory (WalkDir does not follow links), in no fixed order
SearchRecursive(start, pattern) ==
    IF ~RegexValid(pattern) THEN Err("regex parse error")
    ELSE LET top == InodeAt(start)
             files == {n \in Inodes : FsKind[n] = "file" /\ IsUnder(n, top)}
         IN Ok(UNION {{[path |-> AbsPath(PathOf(n)), line_number |-> k,
                         context |-> Lines(FsContent(n))[k]] :
                           k \in {x \in 1..Len(Lines(FsContent(n))) :
                                    LineMatches(Lines(FsContent(n))[x], pattern)}} :
                      n \in files})

\* pathdiff::diff_paths(path, root) for a path below the root
DiffPaths(path, rt) == RelPath(SubSeq(path.comps, Len(rt.comps) + 1, Len(path.comps)))

\* ------------------------------------------------------------------------
\* run_delegate_batch

\* The texts a subtask can have, and what a child conversation can end in:
\* Ok(content), Err(error) (run_conversation returned), or a panic of the task
\* (the JoinSet then reports a JoinError).
SubtaskTexts == {"count files in a", "count files in b"}
ChildContents == {"3 files"}
ChildErrors == {"LLM tool loop did not terminate with a message after 60 iterations"}
Panic == [panic |-> TRUE]
ChildOutcomes == {Ok(c) : c \in ChildContents} \cup {Err(e) : e \in ChildErrors} \cup {Panic}

Total == Len(subtasks)

BatchLimitUncapped(max_concurrency, total) == total

BatchLimitOneMore(max_concurrency, total) ==
    Min(Clamp(max_concurrency, 1, MAX_PARALLEL_DELEGATIONS) + 1, total)

\* limit = max_concurrency.clamp(1, MAX_PARALLEL_DELEGATIONS).min(total)
BatchLimit(max_concurrency, total) ==
    Min(Clamp(max_concurrency, 1, MAX_PARALLEL_DELEGATIONS), total)

\* A task of the JoinSet: not spawned yet, running its child conversation,
\* finished (output not yet taken by join_next), joined, or aborted because
\* the JoinSet was dropped.
Unspawned == [state |-> "unspawned"]

\* The messages of a conversation
SystemMsg == [role |-> "system", content |-> "system prompt"]
UserMsg(prompt) == [role |-> "user", content |-> prompt]
AssistantMsg(calls) == [role |-> "assistant", tool_calls |-> calls]
ToolMsg(id, content) == [role |-> "tool", tool_call_id |-> id, content |-> content]

\* The Agents that run the batches explored, by depth and model: the
\* top-level Agent with one value of OPENAI_MODEL, a child at depth 1 with
\* another
BatchAgents == {<<0, "model-a">>, <<DEFAULT_MAX_SUBDELEGATIONS - 1, "model-b">>}

SpawnChildReaderSameDepth ==
    [model |-> model, root |-> root, depth |-> depth,
     max_subdelegations |-> max_subdelegations]

\* spawn_child_reader: FileReader::new with the fields of self, one level down
spawn_child_reader ==
    [model |-> model, root |-> root, depth |-> depth + 1,
     max_subdelegations |-> max_subdelegations]

SpawnedTaskInheritsConversation(idx, subtask) ==
    [state |-> "running", idx |-> idx, subtask |-> subtask,
     child |-> spawn_child_reader,
     messages |-> Append(messages, UserMsg(subtask))]

\* spawn_delegate_task: the task owns the child Agent and its conversation,
\* and carries the index idx and the subtask text
SpawnedTask(idx, subtask) ==
    [state |-> "running", idx |-> idx, subtask |-> subtask,
     child |-> spawn_child_reader,
     messages |-> <<SystemMsg, UserMsg(subtask)>>]

\* The json! entry built for a joined child
BatchEntry(subtask, outcome) ==
    IF outcome.ok
    THEN [subtask |-> subtask, status |-> "ok", content |-> outcome.value]
    ELSE [subtask |-> subtask, status |-> "error", error |-> outcome.error]

BatchPayloadConfiguredLimit(collected, lim, d) ==
    [type |-> "delegation_batch_result",
     depth |-> d + 1,
     requested |-> Len(collected),
     max_concurrency |-> DEFAULT_PARALLEL_DELEGATIONS,
     results |-> collected]

\* The json! payload of a finished batch
BatchPayload(collected, lim, d) ==
    [type |-> "delegation_batch_result",
     depth |-> d + 1,
     requested |-> Len(collected),
     max_concurrency |-> lim,
     results |-> collected]

JoinFailsOnChildError(outcome) == outcome = Panic \/ ~outcome.ok

\* join_next() gives Err(join_err) exactly for a task that panicked
JoinFails(outcome) == outcome = Panic

RecordIndexFirstSlot(task) == 1

RecordIndexByCompletion(task) == Cardinality({i \in DOMAIN results : IsSome(results[i])}) + 1

\* The index a joined task's entry is stored at: results[idx] = Some(entry)
RecordIndex(task) == task.idx

JoinErrorPartialBatch(res, lim, d) ==
    Ok(BatchPayload(SelectSeq([i \in DOMAIN res |-> res[i]], IsSome), lim, d))

\* Err(join_err) from join_next(): bail! with the panic, whatever has been
\* recorded in results so far
JoinError(res, lim, d) == Err("delegate subtask panicked")

SpawnsNextAfterOkOnly(outcome, next, total) == outcome.ok /\ next <= total

\* if let Some((idx, subtask)) = pending.next(), after a child was joined
\* with this outcome: is there a subtask left to spawn
SpawnsNext(outcome, next, total) == next <= total

\* Dropping the JoinSet aborts every task still in it
DropJoinSet(js) ==
    [i \in DOMAIN js |->
        IF js[i].state = "running" THEN [js[i] EXCEPT !.state = "aborted"]
        ELSE IF js[i].state = "finished" THEN [js[i] EXCEPT !.state = "dropped"]
        ELSE js[i]]

\* The tail of run_delegate_batch, after the while loop
BatchCollect(res, lim, d) ==
    IF \E i \in DOMAIN res : ~IsSome(res[i])
    THEN Err("missing delegate results after execution")
    ELSE Ok(BatchPayload([i \in DOMAIN res |-> Unwrap(res[i])], lim, d))

\* The subtask lists explored: every length up to MaxSubtasks, all entries
\* alike or one entry different from the rest (so that any two indices are
\* told apart in some list).
BatchInputs ==
    UNION {{s \in [1..n -> SubtaskTexts] :
                Cardinality({i \in 1..n : s[i] # "count files in a"}) <= 1} :
           n \in 0..MaxSubtasks}

\* An Agent that runs a batch is above the depth ceiling (execute_tool)
InitBatch ==
    /\ PathIdle
    /\ LoopIdle
    /\ ToolIdle
    /\ GraphIdle
    /\ TreeIdle
    /\ root = AbsPath(<<"ws">>)
    /\ max_subdelegations = DEFAULT_MAX_SUBDELEGATIONS
    /\ \E agent \in BatchAgents : depth = agent[1] /\ model = agent[2]
    /\ subtasks \in BatchInputs
    /\ batch_pc = "start"
    /\ limit = 0
    /\ pending = 1
    /\ active = 0
    /\ join_set = [i \in 1..Len(subtasks) |-> Unspawned]
    /\ results = <<>>
    /\ batch_ret = None
    /\ spawn_log = <<>>

\* Entry of run_delegate_batch up to the first join_next().await: the empty
\* check, the limit, and the first `limit` spawns.
BatchStart ==
    /\ batch_pc = "start"
    /\ IF Total = 0
       THEN /\ batch_pc' = "returned"
            /\ batch_ret' = Some(Err("delegate_subtask requires at least one subtask"))
            /\ UNCHANGED <<limit, pending, active, join_set, results, spawn_log>>
       ELSE LET lim == BatchLimit(DEFAULT_PARALLEL_DELEGATIONS, Total) IN
            /\ limit' = lim
            /\ join_set' = [i \in 1..Total |->
                              IF i <= lim THEN SpawnedTask(i, subtasks[i]) ELSE Unspawned]
            /\ spawn_log' = [k \in 1..lim |-> [idx |-> k, joined |-> 0]]
            /\ pending' = lim + 1
            /\ active' = lim
            /\ results' = [i \in 1..Total |-> None]
            /\ batch_pc' = "joining"
            /\ UNCHANGED batch_ret
    /\ UNCHANGED subtasks
    /\ UNCHANGED <<agent_vars, tree_vars, path_vars, tool_vars, loop_vars, graph_vars>>

\* A spawned child task runs to its end: run_conversation returns, or the
\* task panics.
ChildFinish(i, outcome) ==
    /\ batch_pc = "joining"
    /\ join_set[i].state = "running"
    /\ join_set' = [join_set EXCEPT ![i] = [@ EXCEPT !.state = "finished"] @@ [outcome |-> outcome]]
    /\ UNCHANGED <<subtasks, batch_pc, limit, pending, active, results, batch_ret, spawn_log>>
    /\ UNCHANGED <<agent_vars, tree_vars, path_vars, tool_vars, loop_vars, graph_vars>>

\* One pass of the while loop: join_next() yields a finished task, its entry
\* is recorded, the next pending subtask (if any) is spawned, and when
\* active reaches 0 the function returns.
BatchJoinNext(i) ==
    /\ batch_pc = "joining"
    /\ active > 0
    /\ join_set[i].state = "finished"
    /\ LET task == join_set[i]
           act1 == active - 1
       IN IF JoinFails(task.outcome)
          THEN \* Err(join_err) => bail!
               /\ batch_pc' = "returned"
               /\ batch_ret' = Some(JoinError(results, limit, depth))
               /\ join_set' = DropJoinSet([join_set EXCEPT ![i].state = "joined"])
               /\ active' = act1
               /\ UNCHANGED <<pending, results, spawn_log>>
          ELSE LET res1 == [results EXCEPT ![RecordIndex(task)] =
                                Some(BatchEntry(task.subtask, task.outcome))]
                   more == SpawnsNext(task.outcome, pending, Total)
                   act2 == IF more THEN act1 + 1 ELSE act1
               IN /\ results' = res1
                  /\ join_set' = [k \in DOMAIN join_set |->
                                    IF k = i THEN [join_set[k] EXCEPT !.state = "joined"]
                                    ELSE IF more /\ k = pending
                                         THEN SpawnedTask(pending, subtasks[pending])
                                         ELSE join_set[k]]
                  /\ pending' = IF more THEN pending + 1 ELSE pending
                  /\ spawn_log' =
                        IF more
                        THEN Append(spawn_log,
                                    [idx |-> pending,
                                     joined |-> Cardinality({k \in DOMAIN join_set :
                                                    k = i \/ join_set[k].state = "joined"})])
                        ELSE spawn_log
                  /\ active' = act2
                  /\ IF act2 > 0
                     THEN UNCHANGED <<batch_pc, batch_ret>>
                     ELSE /\ batch_pc' = "returned"
                          /\ batch_ret' = Some(BatchCollect(res1, limit, depth))
    /\ UNCHANGED <<subtasks, limit>>
    /\ UNCHANGED <<agent_vars, tree_vars, path_vars, tool_vars, loop_vars, graph_vars>>

NextBatch ==
    \/ BatchStart
    \/ \E i \in 1..MaxSubtasks, o \in ChildOutcomes : i <= Total /\ ChildFinish(i, o)
    \/ \E i \in 1..MaxSubtasks : i <= Total /\ BatchJoinNext(i)

SpecBatch == InitBatch /\ [][NextBatch]_vars

\* The batches whose children all return from run_conversation, with Ok or
\* Err: no task panics. tokio runs every spawned task, and the scheduler's
\* own task resumes when join_next() has an output to yield. The batches
\* are those of the top-level Agent.
NextBatchNoCrash ==
    \/ BatchStart
    \/ \E i \in 1..MaxSubtasks, o \in ChildOutcomes \ {Panic} : i <= Total /\ ChildFinish(i, o)
    \/ \E i \in 1..MaxSubtasks : i <= Total /\ BatchJoinNext(i)

InitBatchNoCrash == InitBatch /\ depth = 0

SpecBatchNoCrash ==
    /\ InitBatchNoCrash
    /\ [][NextBatchNoCrash]_vars
    /\ WF_vars(BatchStart)
    /\ \A i \in 1..MaxSubtasks :
          WF_vars(\E o \in ChildOutcomes \ {Panic} : i <= Total /\ ChildFinish(i, o))
    /\ WF_vars(\E i \in 1..MaxSubtasks : i <= Total /\ BatchJoinNext(i))

\* ------------------------------------------------------------------------
\* execute_tool

\* What one call of execute_tool comes to: the Result it returns, the number
\* of child Agents it spawned, and the handler it ran with the path it gave
\* the handler (None when no handler ran).
ToolOutcome(ret, children, handler) == [ret |-> ret, spawned |-> children, handler |-> handler]
Handler(name, path) == Some([name |-> name, path |-> path])
ToolFail(message) == {ToolOutcome(Err(message), 0, None)}

\* ToolName::from_identifier
ToolIdentifiers ==
    {"list_directory", "read_file_full", "read_file_range", "search_text", "delegate_subtask"}
FromIdentifier(name) == IF name \in ToolIdentifiers THEN Some(name) ELSE None

\* What run_delegate_batch can return for a non-empty list of subtasks, with
\* the number of children it spawned: every child joined with Ok or Err, or
\* a join error after at least `limit` spawns.
BatchReturns(subs, d) ==
    LET total == Len(subs)
        lim == BatchLimit(DEFAULT_PARALLEL_DELEGATIONS, total)
        joined == {o \in ChildOutcomes : o # Panic}
    IN {[ret |-> Ok(BatchPayload([i \in 1..total |-> BatchEntry(subs[i], os[i])], lim, d)),
         spawned |-> total] : os \in [1..total -> joined]}
       \cup {[ret |-> Err("delegate subtask panicked"), spawned |-> k] : k \in lim..total}

CollectStringsKeepsEmpty(arr, field) ==
    IF \E k \in 1..Len(arr) : ~IsSome(AsStr(arr[k]))
    THEN Err(IF field = "subtasks" THEN "subtasks must contain only strings"
             ELSE "prompts must contain only strings")
    ELSE Ok([k \in 1..Len(arr) |-> Trim(arr[k].s)])

\* The trimmed, non-empty texts of an array of strings, or the error for an
\* entry that is no string
CollectStrings(arr, field) ==
    IF \E k \in 1..Len(arr) : ~IsSome(AsStr(arr[k]))
    THEN Err(IF field = "subtasks" THEN "subtasks must contain only strings"
             ELSE "prompts must contain only strings")
    ELSE Ok(SelectSeq([k \in 1..Len(arr) |-> Trim(arr[k].s)], LAMBDA t : t # <<>>))

\* The subtasks a singular field and a plural field of the arguments give
CollectSubtasks(args, single, plural) ==
    LET one == IF IsSome(GetStr(args, single)) /\ Trim(Unwrap(GetStr(args, single))) # <<>>
               THEN <<Trim(Unwrap(GetStr(args, single)))>>
               ELSE <<>>
    IN IF ~IsSome(Get(args, plural)) THEN Ok(one)
       ELSE IF ~IsSome(AsArray(Unwrap(Get(args, plural))))
            THEN Err(IF plural = "subtasks" THEN "subtasks must be an array of strings"
                     ELSE "prompts must be an array of strings")
            ELSE LET many == CollectStrings(Unwrap(AsArray(Unwrap(Get(args, plural)))), plural)
                 IN IF many.ok THEN Ok(one \o many.value) ELSE many

DepthLimitOffByOne(d, max) == d > max

\* The depth test that opens the DelegateSubtask arm
DepthLimitReached(d, max) == d >= max

DelegateSubtasksAlwaysReadsPrompts(args, d, max) ==
    IF DepthLimitReached(d, max) THEN Err("delegate_subtask limit reached")
    ELSE LET first == CollectSubtasks(args, "subtask", "subtasks")
             second == CollectSubtasks(args, "prompt", "prompts")
         IN IF ~first.ok THEN first
            ELSE IF ~second.ok THEN second
            ELSE IF first.value \o second.value = <<>>
                 THEN Err("delegate_subtask requires subtask or a non-empty subtasks array")
                 ELSE Ok(first.value \o second.value)

\* ToolName::DelegateSubtask
\* The DelegateSubtask arm up to the call of run_delegate_batch: the subtasks
\* handed to the batch, or the error the arm bails with
DelegateSubtasks(args, d, max) ==
    IF DepthLimitReached(d, max) THEN Err("delegate_subtask limit reached")
    ELSE LET first == CollectSubtasks(args, "subtask", "subtasks") IN
         IF ~first.ok THEN first
         ELSE LET second == IF first.value = <<>>
                            THEN CollectSubtasks(args, "prompt", "prompts")
                            ELSE first
              IN IF ~second.ok THEN second
                 ELSE IF second.value = <<>>
                      THEN Err("delegate_subtask requires subtask or a non-empty subtasks array")
                      ELSE second

ExecDelegateSubtask(args, d, max) ==
    LET subs == DelegateSubtasks(args, d, max) IN
    IF ~subs.ok THEN ToolFail(subs.error)
    ELSE {ToolOutcome(b.ret, b.spawned, None) : b \in BatchReturns(subs.value, d)}

\* ToolName::ListDirectory
ExecListDirectory(args, rt) ==
    LET path_str == IF IsSome(GetStr(args, "path")) THEN Unwrap(GetStr(args, "path")) ELSE <<".">>
        path == ResolvePath(rt, ParsePath(path_str))
    IN IF ~path.ok THEN ToolFail(path.error)
       ELSE LET entries == ListDir(path.value) IN
            IF ~entries.ok
            THEN {ToolOutcome(Err("list_directory failed"), 0, Handler("list_dir", path.value))}
            ELSE {ToolOutcome(
                    Ok([entries |-> [k \in 1..Len(entries.value) |->
                                       [name |-> entries.value[k].name,
                                        path |-> DiffPaths(entries.value[k].path, rt),
                                        kind |-> entries.value[k].kind]]]),
                    0, Handler("list_dir", path.value))}

\* ToolName::ReadFileFull
ExecReadFileFull(args, rt) ==
    IF ~IsSome(GetStr(args, "path")) THEN ToolFail("read_file_full requires path")
    ELSE LET path == ResolvePath(rt, ParsePath(Unwrap(GetStr(args, "path")))) IN
         IF ~path.ok THEN ToolFail(path.error)
         ELSE LET content == ReadFileFull(path.value) IN
              IF ~content.ok
              THEN {ToolOutcome(Err("read_file_full failed"), 0,
                                Handler("read_file_full", path.value))}
              ELSE {ToolOutcome(Ok([path |-> DiffPaths(path.value, rt),
                                    content |-> content.value]),
                                0, Handler("read_file_full", path.value))}

\* ToolName::ReadFileRange
ExecReadFileRange(args, rt) ==
    IF ~IsSome(GetStr(args, "path")) THEN ToolFail("read_file_range requires path")
    ELSE IF ~IsSome(GetU64(args, "start_line"))
         THEN ToolFail("read_file_range requires start_line")
    ELSE IF ~IsSome(GetU64(args, "end_line"))
         THEN ToolFail("read_file_range requires end_line")
    ELSE LET path == ResolvePath(rt, ParsePath(Unwrap(GetStr(args, "path")))) IN
         IF ~path.ok THEN ToolFail(path.error)
         ELSE LET range == ReadFileRange(path.value, Unwrap(GetU64(args, "start_line")),
                                         Unwrap(GetU64(args, "end_line")))
              IN IF ~range.ok
                 THEN {ToolOutcome(Err("read_file_range failed"), 0,
                                   Handler("read_file_range", path.value))}
                 ELSE {ToolOutcome(Ok([path |-> DiffPaths(range.value.path, rt),
                                       start_line |-> range.value.start_line,
                                       end_line |-> range.value.end_line,
                                       content |-> range.value.text]),
                                   0, Handler("read_file_range", path.value))}

ExecSearchTextJoinsOnly(args, rt) ==
    IF ~IsSome(GetStr(args, "pattern")) THEN ToolFail("search_text requires pattern")
    ELSE LET path == IF IsSome(GetStr(args, "path"))
                     THEN Join(rt, ParsePath(Unwrap(GetStr(args, "path"))))
                     ELSE rt
             matches == SearchRecursive(rt, Unwrap(GetStr(args, "pattern")))
         IN IF ~matches.ok
            THEN {ToolOutcome(Err("search_text failed"), 0, Handler("search_recursive", path))}
            ELSE {ToolOutcome(
                    Ok([matches |-> {[path |-> DiffPaths(m.path, rt),
                                      line_number |-> m.line_number,
                                      line |-> m.context] : m \in matches.value}]),
                    0, Handler("search_recursive", path))}

\* ToolName::SearchText
ExecSearchText(args, rt) ==
    IF ~IsSome(GetStr(args, "pattern")) THEN ToolFail("search_text requires pattern")
    ELSE LET path == IF IsSome(GetStr(args, "path"))
                     THEN ResolvePath(rt, ParsePath(Unwrap(GetStr(args, "path"))))
                     ELSE Ok(rt)
         IN IF ~path.ok THEN ToolFail(path.error)
            ELSE LET matches == SearchRecursive(path.value, Unwrap(GetStr(args, "pattern"))) IN
                 IF ~matches.ok
                 THEN {ToolOutcome(Err("search_text failed"), 0,
                                   Handler("search_recursive", path.value))}
                 ELSE {ToolOutcome(
                         Ok([matches |-> {[path |-> DiffPaths(m.path, rt),
                                           line_number |-> m.line_number,
                                           line |-> m.context] : m \in matches.value}]),
                         0, Handler("search_recursive", path.value))}

\* The `arguments` field of a tool_error payload
ArgsJson(text) == IF ParseJson(text).ok THEN ParseJson(text).value ELSE JStr(text.garbage)

ToolMessageContentUnwrapped(call, ret) ==
    IF ret.ok THEN ret.value ELSE [message |-> ret.error]

\* The content of the tool message for a call: the result, or the
\* tool_error payload made of the error
ToolMessageContent(call, ret) ==
    IF ret.ok THEN ret.value
    ELSE [type |-> "tool_error", tool |-> call.name,
          arguments |-> ArgsJson(call.arguments), message |-> ret.error]

ExecuteToolIdentifierFirst(call, rt, d, max) ==
    LET tool == FromIdentifier(call.name) IN
    IF ~IsSome(tool) THEN ToolFail("unsupported tool call")
    ELSE LET args == ParseJson(call.arguments) IN
         IF ~args.ok THEN ToolFail(args.error)
         ELSE CASE Unwrap(tool) = "list_directory" -> ExecListDirectory(args.value, rt)
                [] Unwrap(tool) = "read_file_full" -> ExecReadFileFull(args.value, rt)
                [] Unwrap(tool) = "read_file_range" -> ExecReadFileRange(args.value, rt)
                [] Unwrap(tool) = "search_text" -> ExecSearchText(args.value, rt)
                [] Unwrap(tool) = "delegate_subtask" -> ExecDelegateSubtask(args.value, d, max)

\* FileReader::execute_tool: every outcome the call can have
ExecuteTool(call, rt, d, max) ==
    LET args == ParseJson(call.arguments) IN
    IF ~args.ok THEN ToolFail(args.error)
    ELSE LET tool == FromIdentifier(call.name) IN
         IF ~IsSome(tool) THEN ToolFail("unsupported tool call")
         ELSE CASE Unwrap(tool) = "list_directory" -> ExecListDirectory(args.value, rt)
                [] Unwrap(tool) = "read_file_full" -> ExecReadFileFull(args.value, rt)
                [] Unwrap(tool) = "read_file_range" -> ExecReadFileRange(args.value, rt)
                [] Unwrap(tool) = "search_text" -> ExecSearchText(args.value, rt)
                [] Unwrap(tool) = "delegate_subtask" -> ExecDelegateSubtask(args.value, d, max)

\* The tool calls explored.  Path texts:
PathTexts ==
    {<<"a">>, <<"a", "/", "f.txt">>, <<"out">>, <<"missing">>, <<"/", "etc">>, <<"..">>,
     <<"in", "/", "f.txt">>, <<"/", "ws", "/", "a">>}
EmptyObject == [k \in {} |-> k]
\* an object field that may be absent: choices are None or Some(value)
Field(key, choice) == IF IsSome(choice) THEN key :> Unwrap(choice) ELSE EmptyObject
LineNumbers == {JNum(0), JNum(1), JNum(2), JNum(5), JNum(-1), JStr(<<"1">>)}
PathOnlyArgs ==
    {JObj([path |-> JStr(p)]) : p \in PathTexts} \cup {JObj([path |-> JNum(5)])}
RangeArgs ==
    {JObj(Field("path", p) @@ Field("start_line", s) @@ Field("end_line", e)) :
        p \in {None, Some(JStr(<<"a", "/", "f.txt">>)), Some(JStr(<<"out", "/", "f.txt">>))},
        s \in {None} \cup {Some(n) : n \in LineNumbers},
        e \in {None} \cup {Some(n) : n \in LineNumbers}}
SearchArgs ==
    {JObj(Field("pattern", q) @@ Field("path", p)) :
        q \in {None, Some(JStr(<<"beta">>)), Some(JStr(<<"(">>)), Some(JNum(1))},
        p \in {None, Some(JNum(5))} \cup {Some(JStr(t)) : t \in PathTexts}}
DelegateArgs ==
    {JObj(Field("subtask", a) @@ Field("subtasks", b) @@ Field("prompt", c) @@ Field("prompts", d)) :
        a \in {None, Some(JStr(<<" ">>)), Some(JStr(<<" ", "x", " ">>)), Some(JNum(1))},
        b \in {None, Some(JStr(<<"y">>)), Some(JArr(<<>>)),
               Some(JArr(<<JStr(<<" ", "y">>), JStr(<<>>)>>)),
               Some(JArr(<<JStr(<<"y">>), JNum(5)>>)),
               Some(JArr(<<JStr(<<"y">>), JStr(<<"z", "\n">>)>>))},
        c \in {None, Some(JStr(<<"p", " ">>))},
        d \in {None, Some(JArr(<<JStr(<<"q">>)>>)), Some(JNum(2))}}
ToolArguments ==
    {Garbage, JsonText(JNum(7))}
    \cup {JsonText(o) : o \in PathOnlyArgs \cup RangeArgs \cup SearchArgs \cup DelegateArgs}
ToolNames == ToolIdentifiers \cup {"write_file"}
CallIds == {"call_1", "call_2"}
ToolCall(id, name, arguments) == [id |-> id, name |-> name, arguments |-> arguments]
ToolCalls == {ToolCall("call_1", n, a) : n \in ToolNames, a \in ToolArguments}

\* The Agents explored: a depth ceiling up to the default, a depth up to the
\* ceiling (spawn_child_reader is reached only below the ceiling)
AgentInit ==
    /\ max_subdelegations \in 0..DEFAULT_MAX_SUBDELEGATIONS
    /\ depth \in 0..max_subdelegations

InitTool ==
    /\ BatchIdle
    /\ LoopIdle
    /\ PathIdle
    /\ GraphIdle
    /\ TreeIdle
    /\ root = AbsPath(<<"ws">>)
    /\ model = "model-a"
    /\ AgentInit
    /\ tool_call \in ToolCalls
    /\ tool_pc = "call"
    /\ tool_out = None
    /\ tool_msg = None

\* One call of execute_tool in the loop over tool_calls, and the tool
\* message built from what it returned
ExecuteToolCall ==
    /\ tool_pc = "call"
    /\ \E o \in ExecuteTool(tool_call, root, depth, max_subdelegations) :
          /\ tool_out' = Some(o)
          /\ tool_msg' = Some(ToolMsg(tool_call.id, ToolMessageContent(tool_call, o.ret)))
    /\ tool_pc' = "returned"
    /\ UNCHANGED tool_call
    /\ UNCHANGED <<agent_vars, tree_vars, batch_vars, path_vars, loop_vars, graph_vars>>

NextTool == ExecuteToolCall

SpecTool == InitTool /\ [][NextTool]_vars

\* ------------------------------------------------------------------------
\* run_conversation

\* sleep_backoff: the delay in milliseconds for an iteration
RECURSIVE Pow2(_)
Pow2(n) == IF n = 0 THEN 1 ELSE 2 * Pow2(n - 1)
BackoffDelayJitterModulus(it) ==
    LET exp == Min(it, RETRY_MAX_EXP)
        multiplier == Pow2(exp)
        base_delay == Min(RETRY_BASE_DELAY_MS * multiplier, 60000)
        jitter == (it * 137) % RETRY_MAX_JITTER_MS
    IN base_delay + jitter

BackoffDelayExponentSeven(it) ==
    LET exp == Min(it, RETRY_MAX_EXP + 1)
        multiplier == Pow2(exp)
        base_delay == Min(RETRY_BASE_DELAY_MS * multiplier, 60000)
        jitter == (it * 137) % (RETRY_MAX_JITTER_MS + 1)
    IN base_delay + jitter

BackoffDelay(it) ==
    LET exp == Min(it, RETRY_MAX_EXP)
        multiplier == Pow2(exp)
        base_delay == Min(RETRY_BASE_DELAY_MS * multiplier, 60000)
        jitter == (it * 137) % (RETRY_MAX_JITTER_MS + 1)
    IN base_delay + jitter

\* The tool calls the backend asks for in the conversations explored: one
\* that succeeds, a path that leaves the workspace, an unknown tool,
\* arguments that are no JSON, a delegation and an empty delegation
LoopToolCalls ==
    {ToolCall("call_ls", "list_directory", JsonText(JObj([path |-> JStr(<<"a">>)]))),
     ToolCall("call_esc", "read_file_full",
              JsonText(JObj([path |-> JStr(<<"out", "/", "f.txt">>)]))),
     ToolCall("call_unk", "write_file", JsonText(JObj(EmptyObject))),
     ToolCall("call_bad", "list_directory", Garbage),
     ToolCall("call_del", "delegate_subtask",
              JsonText(JObj([subtask |-> JStr(<<" ", "x", " ">>)]))),
     ToolCall("call_none", "delegate_subtask", JsonText(JObj([subtasks |-> JArr(<<>>)])))}

\* What the backend can answer: a transport error, a timeout, a response
\* without choices, or an assistant message with optional content and
\* optional tool calls
NoResponse == [kind |-> "none"]
Contents == {<<>>, <<" ">>, <<" ", "\n">>, <<" ", "done", "\n">>}
AssistantMessage(content, tool_calls) ==
    [kind |-> "message", content |-> content, tool_calls |-> tool_calls]
\* the lists of at most maxk tool calls; the backend gives every call of a
\* response an id of its own
ToolCallLists ==
    [maxk \in 0..MaxCalls |->
        {calls \in UNION {[1..k -> LoopToolCalls] : k \in 1..maxk} :
            \A i, j \in DOMAIN calls : calls[i].id = calls[j].id => i = j}]
\* the messages with at most maxk tool calls: without calls (list absent or
\* empty) and no, blank or padded text; with calls and no text or padded text
AssistantMessagesUpTo ==
    [maxk \in 0..MaxCalls |->
        {AssistantMessage(c, tc) :
            c \in {None} \cup {Some(x) : x \in Contents}, tc \in {None, Some(<<>>)}}
        \cup
        {AssistantMessage(c, Some(calls)) :
            c \in {None, Some(<<" ", "done", "\n">>)}, calls \in ToolCallLists[maxk]}]
AssistantMessages(maxk) == AssistantMessagesUpTo[Min(MaxCalls, Max(0, maxk))]

ResponseClassEmptyListStalls(message) ==
    IF IsSome(message.tool_calls) THEN
        IF Unwrap(message.tool_calls) # <<>> THEN "tools" ELSE "stalled"
    ELSE IF IsSome(message.content) /\ Trim(Unwrap(message.content)) # <<>> THEN "final"
    ELSE "stalled"

ResponseClassTextFirst(message) ==
    IF IsSome(message.content) /\ Trim(Unwrap(message.content)) # <<>> THEN "final"
    ELSE IF IsSome(message.tool_calls) /\ Unwrap(message.tool_calls) # <<>> THEN "tools"
    ELSE "stalled"

ResponseClassBlankTextFinal(message) ==
    IF IsSome(message.tool_calls) /\ Unwrap(message.tool_calls) # <<>> THEN "tools"
    ELSE IF IsSome(message.content) /\ Unwrap(message.content) # <<>> THEN "final"
    ELSE "stalled"

\* The match on message.tool_calls and the test of message.content: a turn
\* with tool calls, a final answer, or a turn with neither
ResponseClass(message) ==
    IF IsSome(message.tool_calls) /\ Unwrap(message.tool_calls) # <<>> THEN "tools"
    ELSE IF IsSome(message.content) /\ Trim(Unwrap(message.content)) # <<>> THEN "final"
    ELSE "stalled"

LoopContinuesOffByOne(it) == it + 1 <= MAX_TOOL_ITERATIONS

\* for iteration in 0..MAX_TOOL_ITERATIONS: is there an iteration after `it`
LoopContinues(it) == it + 1 < MAX_TOOL_ITERATIONS

ToolCallIdOfFirst(calls, j) == calls[1].id

\* tool_call.id of the call being answered
ToolCallId(calls, j) == calls[j].id

\* The tool calls of the turn being executed
TurnCalls == Unwrap(response.tool_calls)

\* The Agents that run the conversations explored: the top-level Agent and
\* a child at the depth ceiling
LoopAgentInit ==
    /\ root = AbsPath(<<"ws">>)
    /\ model = "model-a"
    /\ max_subdelegations = DEFAULT_MAX_SUBDELEGATIONS
    /\ depth \in {0, max_subdelegations}

RequestWithoutToolMessages(msgs) == SelectSeq(msgs, LAMBDA msg : msg.role # "tool")

\* .messages(messages.clone()): the request carries the conversation
RequestMessages(msgs) == msgs

\* run_conversation is entered with [system, user] and sends the request of
\* iteration 0
InitLoop ==
    /\ BatchIdle
    /\ PathIdle
    /\ ToolIdle
    /\ GraphIdle
    /\ TreeIdle
    /\ LoopAgentInit
    /\ messages = <<SystemMsg, UserMsg("prompt")>>
    /\ iteration = 0
    /\ loop_pc = "awaiting"
    /\ response = NoResponse
    /\ call_idx = 0
    /\ loop_ret = None
    /\ requests = 1
    /\ spawned = 0
    /\ delay_ms = 0
    /\ in_flight = 1
    /\ request = RequestMessages(messages)
    /\ got_response = FALSE

RequestSurvivesTimeout(kind, outstanding) ==
    IF kind = "timeout" THEN outstanding ELSE outstanding - 1

\* The requests still in flight once timeout(..).await has returned: the
\* request future is consumed by the await, and dropped when the timeout fires
RequestsAfterAwait(kind, outstanding) == outstanding - 1

\* The end of an iteration that did not return, with `outstanding` requests
\* in flight: the next iteration sends its request, built from the
\* conversation as the iteration left it, or the loop is exhausted and
\* run_conversation bails
Advance(outstanding) ==
    /\ iteration' = iteration + 1
    /\ response' = NoResponse
    /\ call_idx' = 0
    /\ IF LoopContinues(iteration)
       THEN /\ loop_pc' = "awaiting"
            /\ requests' = requests + 1
            /\ in_flight' = outstanding + 1
            /\ request' = RequestMessages(messages')
            /\ UNCHANGED loop_ret
       ELSE /\ loop_pc' = "failed"
            /\ loop_ret' = Some(Err("LLM tool loop did not terminate with a message after 60 iterations"))
            /\ in_flight' = outstanding
            /\ UNCHANGED <<requests, request>>

BackendFailsTimeoutRestartsBackoff(kind) ==
    /\ loop_pc = "awaiting"
    /\ response' = [kind |-> kind]
    /\ loop_pc' = "backoff"
    /\ delay_ms' = IF kind = "timeout" THEN BackoffDelay(0) ELSE BackoffDelay(iteration)
    /\ in_flight' = RequestsAfterAwait(kind, in_flight)
    /\ UNCHANGED <<messages, iteration, call_idx, loop_ret, requests, spawned, request,
                   got_response>>
    /\ UNCHANGED <<agent_vars, tree_vars, batch_vars, path_vars, tool_vars, graph_vars>>

\* Ok(Err(err)) and Err(_) of the request: the loop starts sleep_backoff
BackendFails(kind) ==
    /\ loop_pc = "awaiting"
    /\ response' = [kind |-> kind]
    /\ loop_pc' = "backoff"
    /\ delay_ms' = BackoffDelay(iteration)
    /\ in_flight' = RequestsAfterAwait(kind, in_flight)
    /\ UNCHANGED <<messages, iteration, call_idx, loop_ret, requests, spawned, request,
                   got_response>>
    /\ UNCHANGED <<agent_vars, tree_vars, batch_vars, path_vars, tool_vars, graph_vars>>

BackoffDoneSameIteration ==
    /\ loop_pc = "backoff"
    /\ loop_pc' = "awaiting"
    /\ response' = NoResponse
    /\ requests' = requests + 1
    /\ in_flight' = in_flight + 1
    /\ delay_ms' = 0
    /\ UNCHANGED <<messages, iteration, call_idx, loop_ret, spawned, request, got_response>>
    /\ UNCHANGED <<agent_vars, tree_vars, batch_vars, path_vars, tool_vars, graph_vars>>

\* sleep_backoff returns: continue 'retry
BackoffDone ==
    /\ loop_pc = "backoff"
    /\ UNCHANGED <<messages, spawned, got_response>>
    /\ Advance(in_flight)
    /\ delay_ms' = 0
    /\ UNCHANGED <<agent_vars, tree_vars, batch_vars, path_vars, tool_vars, graph_vars>>

BackendNoChoicesStalls ==
    /\ loop_pc = "awaiting"
    /\ UNCHANGED messages
    /\ Advance(RequestsAfterAwait("no_choices", in_flight))
    /\ got_response' = TRUE
    /\ UNCHANGED <<spawned, delay_ms>>
    /\ UNCHANGED <<agent_vars, tree_vars, batch_vars, path_vars, tool_vars, graph_vars>>

\* The response has no choices: the ? returns the error
BackendNoChoices ==
    /\ loop_pc = "awaiting"
    /\ response' = [kind |-> "no_choices"]
    /\ loop_pc' = "failed"
    /\ loop_ret' = Some(Err("chat completion returned no choices"))
    /\ in_flight' = RequestsAfterAwait("no_choices", in_flight)
    /\ got_response' = TRUE
    /\ UNCHANGED <<messages, iteration, call_idx, requests, spawned, delay_ms, request>>
    /\ UNCHANGED <<agent_vars, tree_vars, batch_vars, path_vars, tool_vars, graph_vars>>

\* The response carries an assistant message
BackendAnswers(message) ==
    /\ loop_pc = "awaiting"
    /\ LET class == ResponseClass(message) IN
       CASE class = "tools" ->
              /\ messages' = Append(messages, AssistantMsg(Unwrap(message.tool_calls)))
              /\ response' = message
              /\ loop_pc' = "executing"
              /\ call_idx' = 1
              /\ in_flight' = RequestsAfterAwait("message", in_flight)
              /\ UNCHANGED <<iteration, loop_ret, requests, request>>
         [] class = "final" ->
              /\ response' = message
              /\ loop_pc' = "done"
              /\ loop_ret' = Some(Ok(Unwrap(message.content)))
              /\ in_flight' = RequestsAfterAwait("message", in_flight)
              /\ UNCHANGED <<messages, iteration, call_idx, requests, request>>
         [] class = "stalled" ->
              /\ UNCHANGED messages
              /\ Advance(RequestsAfterAwait("message", in_flight))
    /\ got_response' = TRUE
    /\ UNCHANGED <<spawned, delay_ms>>
    /\ UNCHANGED <<agent_vars, tree_vars, batch_vars, path_vars, tool_vars, graph_vars>>

\* execute_tool has returned for the call at call_idx: its tool message is
\* pushed and the next call starts, or the iteration ends
PushToolMessage(o) ==
    /\ loop_pc = "executing"
    /\ LET call == TurnCalls[call_idx] IN
       /\ messages' = Append(messages,
                             ToolMsg(ToolCallId(TurnCalls, call_idx),
                                     ToolMessageContent(call, o.ret)))
       /\ spawned' = spawned + o.spawned
    /\ IF call_idx < Len(TurnCalls)
       THEN /\ call_idx' = call_idx + 1
            /\ UNCHANGED <<iteration, loop_pc, response, loop_ret, requests, in_flight,
                           request>>
       ELSE Advance(in_flight)
    /\ UNCHANGED <<delay_ms, got_response>>

\* One call of execute_tool from its entry to its return
ToolReturns(o) ==
    /\ PushToolMessage(o)
    /\ UNCHANGED <<agent_vars, tree_vars, batch_vars, path_vars, tool_vars, graph_vars>>

NextLoop ==
    \/ \E kind \in {"error", "timeout"} : BackendFails(kind)
    \/ BackoffDone
    \/ BackendNoChoices
    \/ \E message \in AssistantMessages(Min(MaxCalls, MaxMessages - Len(messages) - 1)) :
         BackendAnswers(message)
    \/ /\ loop_pc = "executing"
       /\ \E o \in ExecuteTool(TurnCalls[call_idx], root, depth, max_subdelegations) :
             ToolReturns(o)

SpecLoop == InitLoop /\ [][NextLoop]_vars

\* ------------------------------------------------------------------------
\* run_conversation of a parent Agent whose delegate_subtask calls run
\* through run_delegate_batch step by step (SpecDelegate)

\* The tool calls the backend asks for: a delegation of one subtask, a
\* delegation of two, and a directory listing
DelegateToolCalls ==
    {ToolCall("call_del", "delegate_subtask",
              JsonText(JObj([subtask |-> JStr(<<" ", "x", " ">>)]))),
     ToolCall("call_two", "delegate_subtask",
              JsonText(JObj([subtasks |-> JArr(<<JStr(<<"y">>), JStr(<<"z">>)>>)]))),
     ToolCall("call_ls", "list_directory", JsonText(JObj([path |-> JStr(<<"a">>)])))}

\* The responses: without tool calls, or with at most maxk calls of
\* DelegateToolCalls, each with an id of its own
DelegateMessagesUpTo ==
    [maxk \in 0..MaxCalls |->
        {AssistantMessage(c, tc) :
            c \in {None} \cup {Some(x) : x \in Contents}, tc \in {None, Some(<<>>)}}
        \cup
        {AssistantMessage(None, Some(calls)) :
            calls \in {cs \in UNION {[1..k -> DelegateToolCalls] : k \in 1..maxk} :
                          \A i, j \in DOMAIN cs : cs[i].id = cs[j].id => i = j}}]
DelegateMessages(maxk) == DelegateMessagesUpTo[Min(MaxCalls, Max(0, maxk))]

\* The subtasks with which execute_tool reaches run_delegate_batch for a
\* call, None when the call is answered without a batch
BatchOfCall(call, d, max) ==
    LET args == ParseJson(call.arguments) IN
    IF ~args.ok \/ FromIdentifier(call.name) # Some("delegate_subtask") THEN None
    ELSE LET subs == DelegateSubtasks(args.value, d, max) IN
         IF subs.ok THEN Some(subs.value) ELSE None

\* The parent is the top-level Agent
InitDelegate ==
    /\ InitLoop
    /\ depth = 0

\* execute_tool reaches self.run_delegate_batch(subtasks).await
DelegateEnter ==
    /\ loop_pc = "executing"
    /\ batch_pc = "idle"
    /\ LET subs == BatchOfCall(TurnCalls[call_idx], depth, max_subdelegations) IN
       /\ IsSome(subs)
       /\ subtasks' = Unwrap(subs)
       /\ join_set' = [i \in 1..Len(Unwrap(subs)) |-> Unspawned]
    /\ batch_pc' = "start"
    /\ limit' = 0
    /\ pending' = 1
    /\ active' = 0
    /\ results' = <<>>
    /\ batch_ret' = None
    /\ spawn_log' = <<>>
    /\ UNCHANGED <<agent_vars, tree_vars, path_vars, tool_vars, loop_vars, graph_vars>>

\* children spawned by the batch in progress
BatchSpawned == Cardinality({i \in DOMAIN join_set : join_set[i].state # "unspawned"})

DelegateReturnPartialBatch ==
    /\ batch_pc \in {"joining", "returned"}
    /\ LET recorded == SelectSeq(results, IsSome)
           ret == IF batch_pc = "returned" THEN Unwrap(batch_ret)
                  ELSE Ok(BatchPayload([k \in DOMAIN recorded |-> Unwrap(recorded[k])],
                                       limit, depth))
       IN PushToolMessage(ToolOutcome(ret, BatchSpawned, None))
    /\ subtasks' = <<>>
    /\ batch_pc' = "idle"
    /\ limit' = 0
    /\ pending' = 0
    /\ active' = 0
    /\ join_set' = <<>>
    /\ results' = <<>>
    /\ batch_ret' = None
    /\ spawn_log' = <<>>
    /\ UNCHANGED <<agent_vars, tree_vars, path_vars, tool_vars, graph_vars>>

\* run_delegate_batch has returned: execute_tool returns its result to the
\* loop, and the locals of the batch are gone
DelegateReturn ==
    /\ batch_pc = "returned"
    /\ PushToolMessage(ToolOutcome(Unwrap(batch_ret), BatchSpawned, None))
    /\ subtasks' = <<>>
    /\ batch_pc' = "idle"
    /\ limit' = 0
    /\ pending' = 0
    /\ active' = 0
    /\ join_set' = <<>>
    /\ results' = <<>>
    /\ batch_ret' = None
    /\ spawn_log' = <<>>
    /\ UNCHANGED <<agent_vars, tree_vars, path_vars, tool_vars, graph_vars>>

\* a call that does not reach run_delegate_batch
DirectToolReturns ==
    /\ loop_pc = "executing"
    /\ ~IsSome(BatchOfCall(TurnCalls[call_idx], depth, max_subdelegations))
    /\ \E o \in ExecuteTool(TurnCalls[call_idx], root, depth, max_subdelegations) :
          ToolReturns(o)

NextDelegate ==
    \/ \E kind \in {"error", "timeout"} : BackendFails(kind)
    \/ BackoffDone
    \/ BackendNoChoices
    \/ \E message \in DelegateMessages(Min(MaxCalls, MaxMessages - Len(messages) - 1)) :
         BackendAnswers(message)
    \/ DelegateEnter
    \/ BatchStart
    \/ \E i \in DOMAIN join_set : \E outcome \in ChildOutcomes : ChildFinish(i, outcome)
    \/ \E i \in DOMAIN join_set : BatchJoinNext(i)
    \/ DelegateReturn
    \/ DirectToolReturns

SpecDelegate == InitDelegate /\ [][NextDelegate]_vars

\* ------------------------------------------------------------------------
\* The learning graph (src/src/model.rs, src/src/graph.rs, src/src/adder.rs)

MAX_NODE_LEVEL == 3
MAX_TAGS_PER_NODE == 3
ALLOWED_TAGS ==
    {<<"design_recipe">>, <<"contract">>, <<"purpose">>, <<"tests">>, <<"stub">>,
     <<"implementation">>, <<"refactor">>}

\* str::to_lowercase, token by token; the tokens with upper-case letters are
\* those of the texts below
ToLowercase(text) ==
    LET lower(tok) ==
            CASE tok = "I" -> "i"
              [] tok = "STUDENTS" -> "students"
              [] tok = "Arrays" -> "arrays"
              [] tok = "STORE" -> "store"
              [] tok = "Loops" -> "loops"
              [] tok = "Tests" -> "tests"
              [] OTHER -> tok
    IN [k \in DOMAIN text |-> lower(text[k])]

\* str::split_whitespace: the maximal runs of tokens that are not white space
RECURSIVE SplitWhitespace(_)
SplitWhitespace(text) ==
    LET s == TrimStart(text) IN
    IF s = <<>> THEN <<>>
    ELSE LET n == CHOOSE k \in 1..Len(s) :
                      /\ \A j \in 1..k : s[j] \notin Blank
                      /\ k = Len(s) \/ s[k + 1] \in Blank
         IN <<SubSeq(s, 1, n)>> \o SplitWhitespace(SubSeq(s, n + 1, Len(s)))

\* [&str]::join(" ")
RECURSIVE JoinSpace(_)
JoinSpace(segments) ==
    IF segments = <<>> THEN <<>>
    ELSE IF Len(segments) = 1 THEN segments[1]
    ELSE segments[1] \o <<" ">> \o JoinSpace(Tail(segments))

clean_text(text) == JoinSpace(SplitWhitespace(text))
normalize_text(text) == ToLowercase(JoinSpace(SplitWhitespace(text)))

is_single_sentence(text) ==
    LET trimmed == Trim(text)
        enders == {".", "!", "?"}
        ender_count == Cardinality({k \in DOMAIN trimmed : trimmed[k] \in enders})
    IN IF trimmed = <<>> THEN FALSE
       ELSE trimmed[Len(trimmed)] \in enders /\ ender_count = 1

\* the prefix test on the lowered, cleaned text of a LearningOutcome proposal
OutcomePrefixWithoutSpace(lowered) ==
    LET starts_with(prefix) ==
            Len(lowered) >= Len(prefix) /\ SubSeq(lowered, 1, Len(prefix)) = prefix
    IN starts_with(<<"i", " ", "can">>) \/ starts_with(<<"students", " ", "can">>)
HasOutcomePrefix(lowered) ==
    LET starts_with(prefix) ==
            Len(lowered) >= Len(prefix) /\ SubSeq(lowered, 1, Len(prefix)) = prefix
    IN starts_with(<<"i", " ", "can", " ">>) \/ starts_with(<<"students", " ", "can", " ">>)

RECURSIVE SanitizeInto(_, _)
SanitizeInto(tags, result) ==
    IF tags = <<>> \/ Len(result) = MAX_TAGS_PER_NODE THEN result
    ELSE LET normalized == ToLowercase(Trim(Head(tags))) IN
         IF normalized = <<>> THEN SanitizeInto(Tail(tags), result)
         ELSE IF normalized \notin ALLOWED_TAGS THEN SanitizeInto(Tail(tags), result)
         ELSE IF \A k \in DOMAIN result : result[k] # normalized
              THEN SanitizeInto(Tail(tags), Append(result, normalized))
              ELSE SanitizeInto(Tail(tags), result)
sanitize_tags(tags) ==
    IF tags = None THEN None
    ELSE LET result == SanitizeInto(Unwrap(tags), <<>>) IN
         IF result = <<>> THEN None ELSE Some(result)

\* Decision::accepted, Decision::rejected; a reason is its format string
\* followed by the values formatted into it
Accepted(id) == [accepted |-> TRUE, reason |-> None, assigned_id |-> id]
Rejected(reason) == [accepted |-> FALSE, reason |-> Some(reason), assigned_id |-> None]

\* Uuid::new_v4: the k-th value drawn; distinct draws give distinct values
Uuid(k) == [uuid |-> k]

\* GraphStore: a NodeIndex is a position in nodes; the indexes are HashMaps
add_node(st, node) ==
    LET norm == normalize_text(node.text)
        index == Len(st.nodes) + 1
        insert(map, key) == [x \in DOMAIN map \cup {key} |-> IF x = key THEN index ELSE map[x]]
    IN [st EXCEPT !.nodes = Append(@, node),
                  !.text_index = insert(@, norm),
                  !.id_index = insert(@, node.id)]
add_edge(st, edge) == [st EXCEPT !.edges = Append(@, edge)]
FindByRawText(st, text) ==
    IF text \in DOMAIN st.text_index THEN Some(st.text_index[text]) ELSE None
find_by_text(st, text) ==
    LET norm == normalize_text(text) IN
    IF norm \in DOMAIN st.text_index THEN Some(st.text_index[norm]) ELSE None
find_by_id(st, id) == IF id \in DOMAIN st.id_index THEN Some(st.id_index[id]) ELSE None

\* validate_and_add_node answering with an identifier drawn anew instead of
\* the identifier of the node it stored
ValidateAndAddNodeFreshId(st, n, proposal, batch_seen) ==
    LET cleaned_text == clean_text(proposal.text)
        norm == normalize_text(cleaned_text)
        reject(reason, seen) ==
            [store |-> st, uuids |-> n, batch_seen |-> seen,
             decision |-> Rejected(<<reason>>)]
    IN
    IF proposal.granularity # "Sentence"
    THEN reject("granularity must be sentence", batch_seen)
    ELSE IF proposal.level > MAX_NODE_LEVEL
    THEN reject("level must be between 0 and 3", batch_seen)
    ELSE IF cleaned_text = <<>>
    THEN reject("node text is empty after trimming", batch_seen)
    ELSE IF ~is_single_sentence(cleaned_text)
    THEN reject("node text must be a single sentence", batch_seen)
    ELSE IF proposal.kind = "LearningOutcome" /\ ~HasOutcomePrefix(ToLowercase(cleaned_text))
    THEN reject("learning outcomes must start with 'I can' or 'Students can'", batch_seen)
    ELSE IF norm \in batch_seen
    THEN reject("duplicate node within batch", batch_seen)
    ELSE IF find_by_text(st, cleaned_text) # None
    THEN reject("duplicate node already present", batch_seen \cup {norm})
    ELSE LET node == [id |-> Uuid(n + 1), kind |-> proposal.kind,
                      granularity |-> proposal.granularity, level |-> proposal.level,
                      text |-> cleaned_text, tags |-> sanitize_tags(proposal.tags)]
         IN [store |-> add_node(st, node), uuids |-> n + 2,
             batch_seen |-> batch_seen \cup {norm}, decision |-> Accepted(Some(Uuid(n + 2)))]

\* GraphAdder::validate_and_add_node on the store st with n identifiers drawn
validate_and_add_node(st, n, proposal, batch_seen) ==
    LET cleaned_text == clean_text(proposal.text)
        norm == normalize_text(cleaned_text)
        reject(reason, seen) ==
            [store |-> st, uuids |-> n, batch_seen |-> seen,
             decision |-> Rejected(<<reason>>)]
    IN
    IF proposal.granularity # "Sentence"
    THEN reject("granularity must be sentence", batch_seen)
    ELSE IF proposal.level > MAX_NODE_LEVEL
    THEN reject("level must be between 0 and 3", batch_seen)
    ELSE IF cleaned_text = <<>>
    THEN reject("node text is empty after trimming", batch_seen)
    ELSE IF ~is_single_sentence(cleaned_text)
    THEN reject("node text must be a single sentence", batch_seen)
    ELSE IF proposal.kind = "LearningOutcome" /\ ~HasOutcomePrefix(ToLowercase(cleaned_text))
    THEN reject("learning outcomes must start with 'I can' or 'Students can'", batch_seen)
    ELSE IF norm \in batch_seen
    THEN reject("duplicate node within batch", batch_seen)
    ELSE IF find_by_text(st, cleaned_text) # None
    THEN reject("duplicate node already present", batch_seen \cup {norm})
    ELSE LET node == [id |-> Uuid(n + 1), kind |-> proposal.kind,
                      granularity |-> proposal.granularity, level |-> proposal.level,
                      text |-> cleaned_text, tags |-> sanitize_tags(proposal.tags)]
         IN [store |-> add_node(st, node), uuids |-> n + 1,
             batch_seen |-> batch_seen \cup {norm}, decision |-> Accepted(Some(node.id))]

\* GraphAdder::handle_add_nodes: the proposals in order with one batch_seen,
\* which is empty when the handler starts
RECURSIVE handle_add_nodes(_, _, _, _)
handle_add_nodes(st, n, proposals, batch_seen) ==
    IF proposals = <<>> THEN [store |-> st, uuids |-> n, decisions |-> <<>>]
    ELSE LET r == validate_and_add_node(st, n, Head(proposals), batch_seen)
             rest == handle_add_nodes(r.store, r.uuids, Tail(proposals), r.batch_seen)
         IN [rest EXCEPT !.decisions = <<r.decision>> \o @]

\* petgraph Graph::find_edge: the edges leaving a are walked from the one
\* added last, so the newest edge from a to b is the one found
find_edge(st, a, b) ==
    LET found == {k \in DOMAIN st.edges : st.edges[k].from = a /\ st.edges[k].to = b}
    IN IF found = {} THEN None ELSE Some(CHOOSE k \in found : \A j \in found : j <= k)

\* the targets of the PrerequisiteFor edges leaving current, newest edge first
RECURSIVE PrereqTargets(_, _, _)
PrereqTargets(st, current, k) ==
    IF k = 0 THEN <<>>
    ELSE IF st.edges[k].from = current /\ st.edges[k].relation = "PrerequisiteFor"
         THEN <<st.edges[k].to>> \o PrereqTargets(st, current, k - 1)
         ELSE PrereqTargets(st, current, k - 1)

\* the loop of would_cycle_prereq: pop, skip the visited, stop at from
RECURSIVE PrereqSearch(_, _, _, _)
PrereqSearch(st, from, stack, visited) ==
    IF stack = <<>> THEN FALSE
    ELSE LET current == stack[Len(stack)]
             rest == SubSeq(stack, 1, Len(stack) - 1)
         IN IF current \in visited THEN PrereqSearch(st, from, rest, visited)
            ELSE IF current = from THEN TRUE
            ELSE PrereqSearch(st, from,
                              rest \o PrereqTargets(st, current, Len(st.edges)),
                              visited \cup {current})

WouldCycleSelfOnly(st, from, to) == from = to
would_cycle_prereq(st, from, to) ==
    IF from = to THEN TRUE ELSE PrereqSearch(st, from, <<to>>, {})

\* GraphStore::is_prerequisite_dag: petgraph's is_cyclic_directed on the
\* PrerequisiteFor edges, here by the transitive closure of those edges
PrereqPairs(st) ==
    {<<st.edges[k].from, st.edges[k].to>> :
        k \in {j \in DOMAIN st.edges : st.edges[j].relation = "PrerequisiteFor"}}
RECURSIVE Closure(_, _)
Closure(pairs, rounds) ==
    IF rounds = 0 THEN pairs
    ELSE Closure(pairs \cup {<<xy[1][1], xy[2][2]>> :
                                 xy \in {pq \in pairs \X pairs : pq[1][2] = pq[2][1]}},
                 rounds - 1)
is_prerequisite_dag(st) ==
    \A p \in Closure(PrereqPairs(st), Len(st.nodes)) : p[1] # p[2]

\* validate_and_add_edge without the comparison of the two levels
ValidateAndAddEdgeIgnoresLevel(st, proposal, batch_seen) ==
    LET key == <<proposal.from_id, proposal.to_id, proposal.relation>>
        seen == batch_seen \cup {key}
        from_index == find_by_id(st, proposal.from_id)
        to_index == find_by_id(st, proposal.to_id)
        prereq == proposal.relation = "PrerequisiteFor"
        reject(reason) == [store |-> st, batch_seen |-> seen, decision |-> Rejected(reason)]
    IN
    IF key \in batch_seen THEN reject(<<"duplicate edge within batch">>)
    ELSE IF from_index = None THEN reject(<<"unknown from_id {}", proposal.from_id>>)
    ELSE IF to_index = None THEN reject(<<"unknown to_id {}", proposal.to_id>>)
    ELSE LET from == Unwrap(from_index)
             to == Unwrap(to_index)
             existing == find_edge(st, from, to)
             rationale == Trim(proposal.rationale)
         IN
         IF from = to THEN reject(<<"self-loops are not allowed">>)
         ELSE IF existing # None /\ st.edges[Unwrap(existing)].relation = proposal.relation
         THEN reject(<<"edge already exists">>)
         ELSE IF from \notin DOMAIN st.nodes THEN reject(<<"from node missing from store">>)
         ELSE IF to \notin DOMAIN st.nodes THEN reject(<<"to node missing from store">>)
         ELSE IF prereq /\ would_cycle_prereq(st, from, to)
         THEN reject(<<"edge would introduce a prerequisite cycle">>)
         ELSE IF prereq /\ st.nodes[from].kind # "Concept"
         THEN reject(<<"prerequisite edges must originate from a concept">>)
         ELSE IF prereq /\ st.nodes[to].kind \notin {"Concept", "LearningOutcome"}
         THEN reject(<<"prerequisite edges must target a concept or learning outcome">>)
         ELSE IF rationale = <<>> THEN reject(<<"edge rationale missing">>)
         ELSE [store |-> add_edge(st, [from |-> from, to |-> to,
                                       relation |-> proposal.relation,
                                       rationale |-> rationale]),
               batch_seen |-> seen, decision |-> Accepted(None)]

\* GraphAdder::validate_and_add_edge
validate_and_add_edge(st, proposal, batch_seen) ==
    LET key == <<proposal.from_id, proposal.to_id, proposal.relation>>
        seen == batch_seen \cup {key}
        from_index == find_by_id(st, proposal.from_id)
        to_index == find_by_id(st, proposal.to_id)
        prereq == proposal.relation = "PrerequisiteFor"
        reject(reason) == [store |-> st, batch_seen |-> seen, decision |-> Rejected(reason)]
    IN
    IF key \in batch_seen THEN reject(<<"duplicate edge within batch">>)
    ELSE IF from_index = None THEN reject(<<"unknown from_id {}", proposal.from_id>>)
    ELSE IF to_index = None THEN reject(<<"unknown to_id {}", proposal.to_id>>)
    ELSE LET from == Unwrap(from_index)
             to == Unwrap(to_index)
             existing == find_edge(st, from, to)
             rationale == Trim(proposal.rationale)
         IN
         IF from = to THEN reject(<<"self-loops are not allowed">>)
         ELSE IF existing # None /\ st.edges[Unwrap(existing)].relation = proposal.relation
         THEN reject(<<"edge already exists">>)
         ELSE IF from \notin DOMAIN st.nodes THEN reject(<<"from node missing from store">>)
         ELSE IF to \notin DOMAIN st.nodes THEN reject(<<"to node missing from store">>)
         ELSE IF prereq /\ would_cycle_prereq(st, from, to)
         THEN reject(<<"edge would introduce a prerequisite cycle">>)
         ELSE IF prereq /\ st.nodes[from].kind # "Concept"
         THEN reject(<<"prerequisite edges must originate from a concept">>)
         ELSE IF prereq /\ st.nodes[to].kind \notin {"Concept", "LearningOutcome"}
         THEN reject(<<"prerequisite edges must target a concept or learning outcome">>)
         ELSE IF prereq /\ st.nodes[from].level > st.nodes[to].level
         THEN reject(<<"prerequisite edges must not decrease level">>)
         ELSE IF rationale = <<>> THEN reject(<<"edge rationale missing">>)
         ELSE [store |-> add_edge(st, [from |-> from, to |-> to,
                                       relation |-> proposal.relation,
                                       rationale |-> rationale]),
               batch_seen |-> seen, decision |-> Accepted(None)]

\* GraphAdder::handle_add_edges: the proposals in order with one batch_seen,
\* which is empty when the handler starts
RECURSIVE handle_add_edges(_, _, _)
handle_add_edges(st, proposals, batch_seen) ==
    IF proposals = <<>> THEN [store |-> st, decisions |-> <<>>]
    ELSE LET r == validate_and_add_edge(st, Head(proposals), batch_seen)
             rest == handle_add_edges(r.store, Tail(proposals), r.batch_seen)
         IN [rest EXCEPT !.decisions = <<r.decision>> \o @]

\* Message<AddNodes>::handle: the actor handles one message at a time
AddNodes(proposals) ==
    LET r == handle_add_nodes(store, uuids, proposals, {}) IN
    /\ store' = r.store
    /\ uuids' = r.uuids
    /\ graph_msg' = [kind |-> "AddNodes", proposals |-> proposals]
    /\ decisions' = Some(r.decisions)
    /\ UNCHANGED <<agent_vars, tree_vars, batch_vars, path_vars, tool_vars, loop_vars>>

\* Message<AddEdges>::handle
AddEdges(proposals) ==
    LET r == handle_add_edges(store, proposals, {}) IN
    /\ Len(r.store.edges) <= MaxEdges
    /\ store' = r.store
    /\ graph_msg' = [kind |-> "AddEdges", proposals |-> proposals]
    /\ decisions' = Some(r.decisions)
    /\ UNCHANGED <<uuids, agent_vars, tree_vars, batch_vars, path_vars, tool_vars, loop_vars>>

\* GraphAdder::with_event_sender(GraphStore::new(), None), with no Agent running
InitGraph ==
    /\ BatchIdle
    /\ LoopIdle
    /\ PathIdle
    /\ ToolIdle
    /\ GraphIdle
    /\ TreeIdle
    /\ depth = 0
    /\ max_subdelegations = DEFAULT_MAX_SUBDELEGATIONS
    /\ root = AbsPath(<<"ws">>)
    /\ model = "model-a"

\* ---- node proposals ----
NodeProposal(kind, level, text, tags) ==
    [kind |-> kind, granularity |-> "Sentence", level |-> level, text |-> text, tags |-> tags]
NodeTexts ==
    [Arrays |-> <<"Arrays", " ", "store", " ", "items", ".">>,
     ArraysMessy |-> <<" ", "arrays", " ", " ", "STORE", "\n", "items", ".", " ">>,
     Loops |-> <<"Loops", " ", "repeat", ".">>,
     ICan |-> <<"I", " ", "can", " ", "loop", ".">>,
     ICanLower |-> <<"i", " ", "can", " ", "loop", ".">>,
     Students |-> <<"STUDENTS", " ", " ", "can", " ", "loop", "!">>,
     ICanShort |-> <<"I", " ", "can", ".">>,
     TwoSentences |-> <<"One", ".", " ", "Two", ".">>,
     Blank |-> <<" ", "\n">>,
     NoEnder |-> <<"Arrays">>]
NodeProposals ==
    [ArraysConcept |-> NodeProposal("Concept", 0, NodeTexts.Arrays, None),
     ArraysAgain |-> NodeProposal("Concept", 1, NodeTexts.ArraysMessy,
                                  Some(<<<<" ", "Tests", " ">>, <<"bogus">>, <<"tests">>,
                                         <<"stub">>>>)),
     LoopsConcept |-> NodeProposal("Concept", 0, NodeTexts.Loops, None),
     LoopsOutcome |-> NodeProposal("LearningOutcome", 1, NodeTexts.Loops, None),
     ICanOutcome |-> NodeProposal("LearningOutcome", 2, NodeTexts.ICan, None),
     ICanConcept |-> NodeProposal("Concept", 1, NodeTexts.ICanLower, None),
     StudentsOutcome |-> NodeProposal("LearningOutcome", 1, NodeTexts.Students, None),
     ShortOutcome |-> NodeProposal("LearningOutcome", 1, NodeTexts.ICanShort, None),
     TooDeep |-> NodeProposal("Concept", 4, NodeTexts.Arrays, None),
     BlankNode |-> NodeProposal("Concept", 0, NodeTexts.Blank, None),
     TwoNode |-> NodeProposal("Concept", 0, NodeTexts.TwoSentences, None),
     NoEnder |-> NodeProposal("Concept", 0, NodeTexts.NoEnder, None)]

NodeBatches ==
    LET P == NodeProposals IN
    {<<P.ArraysConcept>>, <<P.ArraysAgain>>, <<P.LoopsConcept>>, <<P.LoopsOutcome>>,
     <<P.ICanOutcome>>, <<P.ICanConcept>>, <<P.StudentsOutcome>>, <<P.ShortOutcome>>,
     <<P.ArraysConcept, P.ArraysAgain>>, <<P.ArraysAgain, P.ArraysConcept>>,
     <<P.LoopsOutcome, P.ICanOutcome>>, <<P.ShortOutcome, P.StudentsOutcome>>,
     <<P.ICanOutcome, P.ICanConcept>>, <<P.LoopsOutcome, P.LoopsConcept>>,
     <<P.StudentsOutcome, P.LoopsConcept>>, <<P.ICanConcept, P.StudentsOutcome>>,
     <<P.TooDeep, P.ArraysConcept>>, <<P.BlankNode, P.TwoNode, P.LoopsConcept>>,
     <<P.NoEnder, P.ICanOutcome, P.ArraysAgain>>}

NextNodes == \E proposals \in NodeBatches : AddNodes(proposals)

SpecNodes == InitGraph /\ [][NextNodes]_vars

\* ---- edge proposals over the nodes of GraphNodeBatches ----
EdgeProposal(relation, from, to, rationale) ==
    [relation |-> relation, from_id |-> Uuid(from), to_id |-> Uuid(to), rationale |-> rationale]

\* u1, u2: concepts of level 0; u3: a concept of level 1; u4: a learning
\* outcome of level 1; u9 is never assigned
GraphNodeBatches ==
    LET P == NodeProposals IN
    {<<P.ArraysConcept, P.LoopsConcept>>,
     <<P.ArraysConcept, P.LoopsConcept, P.ICanConcept, P.StudentsOutcome>>}
EdgeBatches ==
    LET Prereq(from, to) == EdgeProposal("PrerequisiteFor", from, to, <<"because">>)
        Supports(from, to) == EdgeProposal("Supports", from, to, <<" ", "because", " ">>)
        NoRationale(from, to) == EdgeProposal("PrerequisiteFor", from, to, <<" ">>)
    IN {<<Prereq(1, 2)>>, <<Prereq(2, 1)>>, <<Prereq(2, 3)>>, <<Prereq(3, 1)>>,
        <<Prereq(1, 4)>>, <<Prereq(4, 3)>>, <<Supports(1, 2)>>, <<Prereq(1, 1)>>,
        <<Prereq(9, 1)>>, <<Prereq(1, 9)>>, <<NoRationale(1, 2)>>,
        <<Prereq(1, 2), Prereq(2, 1)>>, <<Prereq(2, 1), Prereq(1, 2)>>,
        <<Prereq(1, 2), Prereq(1, 2)>>, <<Supports(1, 2), Prereq(1, 2)>>,
        <<Prereq(1, 2), Supports(1, 2)>>, <<Prereq(9, 1), Prereq(1, 2)>>,
        <<Prereq(1, 2), Prereq(2, 3)>>, <<Prereq(2, 3), Prereq(3, 1)>>,
        <<Supports(1, 2), Supports(1, 2)>>, <<NoRationale(1, 2), Prereq(1, 2)>>,
        <<Prereq(1, 2), Prereq(2, 3), Prereq(3, 1)>>, <<Supports(2, 2), Supports(3, 1)>>}

NextGraph ==
    \/ \E proposals \in GraphNodeBatches : AddNodes(proposals)
    \/ \E proposals \in EdgeBatches : AddEdges(proposals)

SpecGraph == InitGraph /\ [][NextGraph]_vars

\* ------------------------------------------------------------------------
\* The delegation tree: every Agent runs run_conversation; a delegate_subtask
\* call puts it into run_delegate_batch, whose JoinSet holds its children.
\* The children of one JoinSet are told apart by their state only, so a
\* JoinSet is a bag: a function from child states to the number of children
\* in that state.

\* an Agent with a backend request in flight and no batch
TreeAgent(d, max) ==
    [depth |-> d, max_subdelegations |-> max, pc |-> "awaiting", pending |-> 0, kids |-> <<>>]

TreeChildSameDepth(a) == TreeAgent(a.depth, a.max_subdelegations)

\* spawn_child_reader of the Agent a, started by spawn_delegate_task
TreeChild(a) == TreeAgent(a.depth + 1, a.max_subdelegations)

\* a bag with n more copies of x, and with one copy of x less
BagAdd(bag, x, n) ==
    [y \in DOMAIN bag \cup {x} |->
        (IF y \in DOMAIN bag THEN bag[y] ELSE 0) + (IF y = x THEN n ELSE 0)]
BagRemove(bag, x) ==
    IF bag[x] = 1 THEN [y \in DOMAIN bag \ {x} |-> bag[y]] ELSE [bag EXCEPT ![x] = @ - 1]

\* the arguments of a delegate_subtask call that names t subtasks
TreeArgs(t) == JObj([subtasks |-> JArr([k \in 1..t |-> JStr(<<"x">>)])])

\* The DelegateSubtask arm of the Agent a for a call with t subtasks, up to
\* the first loop of run_delegate_batch: the Agent in its batch with limit
\* children spawned, or None when the arm bails
TreeDelegated(a, t) ==
    LET subs == DelegateSubtasks(TreeArgs(t), a.depth, a.max_subdelegations) IN
    IF ~subs.ok THEN None
    ELSE LET total == Len(subs.value)
             lim == BatchLimit(DEFAULT_PARALLEL_DELEGATIONS, total)
         IN Some([a EXCEPT !.pc = "batch",
                           !.pending = total - lim,
                           !.kids = BagAdd(<<>>, TreeChild(a), lim)])

\* join_next of the Agent a took the child kid, which returned Ok or Err: the
\* next pending subtask is spawned, and the batch returns when active is 0
TreeJoined(a, kid) ==
    LET rest == BagRemove(a.kids, kid) IN
    IF a.pending > 0
    THEN [a EXCEPT !.pending = @ - 1, !.kids = BagAdd(rest, TreeChild(a), 1)]
    ELSE IF DOMAIN rest = {} THEN [a EXCEPT !.pc = "awaiting", !.kids = <<>>]
    ELSE [a EXCEPT !.kids = rest]

\* join_next of the Agent a got a join error: run_delegate_batch bails, the
\* JoinSet is dropped with the children in it, the tool message is pushed
\* and the next request is sent
TreeBailed(a) == [a EXCEPT !.pc = "awaiting", !.pending = 0, !.kids = <<>>]

\* The steps of one kind open to the Agent a itself: what a becomes
TreeOwnSteps(a, kind) ==
    IF kind = "delegated"
    THEN {Unwrap(TreeDelegated(a, t)) :
             t \in {u \in 1..MaxTreeSubtasks : a.pc = "awaiting" /\ IsSome(TreeDelegated(a, u))}}
    ELSE IF kind = "refused"
    THEN IF a.pc = "awaiting" /\ \E t \in 1..MaxTreeSubtasks : ~IsSome(TreeDelegated(a, t))
         THEN {a} ELSE {}
    ELSE IF kind = "joined"
    THEN {TreeJoined(a, kid) : kid \in {k \in DOMAIN a.kids : k.pc = "awaiting"}}
    ELSE IF kind = "bailed"
    THEN IF \E k \in DOMAIN a.kids : k.pc = "awaiting" THEN {TreeBailed(a)} ELSE {}
    ELSE {}

\* The steps of one kind open in the tree under the Agent a: the Agent that
\* takes the step and what a becomes
RECURSIVE TreeSteps(_, _)
TreeSteps(a, kind) ==
    {[actor |-> a, node |-> b] : b \in TreeOwnSteps(a, kind)}
    \cup UNION {{[actor |-> s.actor, node |-> [a EXCEPT !.kids = BagAdd(BagRemove(@, kid), s.node, 1)]] :
                    s \in TreeSteps(kid, kind)} : kid \in DOMAIN a.kids}

TreeStep(kind) ==
    /\ tree # <<>>
    /\ \E s \in TreeSteps(tree, kind) :
          /\ tree' = s.node
          /\ tree_last' = [kind |-> kind, depth |-> s.actor.depth]
    /\ UNCHANGED <<agent_vars, batch_vars, path_vars, tool_vars, loop_vars, graph_vars>>

\* an Agent's backend asks for delegate_subtask and the batch starts
TreeDelegate == TreeStep("delegated")
\* an Agent's delegate_subtask call is answered with an error
TreeRefuse == TreeStep("refused")
\* a child returns and its parent's join_next takes it
TreeJoin == TreeStep("joined")
\* a child panics and its parent's join_next gets the join error
TreeBail == TreeStep("bailed")

\* FileReader::from_env_with_limit: the top-level Agent, at depth 0
InitTree ==
    /\ BatchIdle
    /\ LoopIdle
    /\ PathIdle
    /\ ToolIdle
    /\ GraphIdle
    /\ depth = 0
    /\ max_subdelegations \in 0..DEFAULT_MAX_SUBDELEGATIONS
    /\ root = AbsPath(<<"ws">>)
    /\ model = "model-a"
    /\ tree = TreeAgent(depth, max_subdelegations)
    /\ tree_last = [kind |-> "none"]

NextTree ==
    \/ TreeDelegate
    \/ TreeRefuse
    \/ TreeJoin
    \/ TreeBail

SpecTree == InitTree /\ [][NextTree]_vars

\* ------------------------------------------------------------------------
\* Properties of the learning graph (SpecGraph, SpecNodes)

HandledNodes == graph_msg.kind = "AddNodes"
HandledEdges == graph_msg.kind = "AddEdges"
\* the decisions on the proposals before the k-th that accepted them
AcceptedBefore(ds, k) == Cardinality({j \in 1..(k - 1) : ds[j].accepted})

\* proposal p would close a cycle of PrerequisiteFor edges in a store with
\* these edges and this id_index: its target reaches its source, or is it
ClosesPrereqCycle(edges_before, ids, p) ==
    /\ p.relation = "PrerequisiteFor"
    /\ p.from_id \in DOMAIN ids
    /\ p.to_id \in DOMAIN ids
    /\ \/ ids[p.from_id] = ids[p.to_id]
       \/ <<ids[p.to_id], ids[p.from_id]>>
              \in Closure(PrereqPairs([edges |-> edges_before]), Len(edges_before))

\* C16: the PrerequisiteFor edges of the store never contain a cycle
\* (is_prerequisite_dag holds in every state), and in every AddEdges batch the
\* store's edges only grow by the accepted proposals, in order, and a
\* PrerequisiteFor proposal that would close a cycle with the edges present
\* when it is validated (those of the store before the batch and those
\* accepted earlier in the batch) is rejected and adds no edge.
C16_PrerequisiteEdgesAcyclic ==
    /\ [](is_prerequisite_dag(store))
    /\ [][(graph_msg'.kind = "AddEdges") =>
            LET ps == graph_msg'.proposals
                ds == Unwrap(decisions')
            IN /\ Len(ds) = Len(ps)
               /\ Len(store'.edges) = Len(store.edges) + AcceptedBefore(ds, Len(ds) + 1)
               /\ SubSeq(store'.edges, 1, Len(store.edges)) = store.edges
               /\ store'.nodes = store.nodes
               /\ \A k \in DOMAIN ps :
                      ClosesPrereqCycle(
                          SubSeq(store'.edges, 1, Len(store.edges) + AcceptedBefore(ds, k)),
                          store.id_index, ps[k])
                      => ~ds[k].accepted]_vars

\* a chain u1 -> u2 -> u3 accepted in one batch whose third proposal, closing
\* the cycle, was rejected for that reason
C16_Witness ==
    /\ HandledEdges
    /\ graph_msg.proposals = <<EdgeProposal("PrerequisiteFor", 1, 2, <<"because">>),
                                EdgeProposal("PrerequisiteFor", 2, 3, <<"because">>),
                                EdgeProposal("PrerequisiteFor", 3, 1, <<"because">>)>>
    /\ decisions = Some(<<Accepted(None), Accepted(None),
                          Rejected(<<"edge would introduce a prerequisite cycle">>)>>)
    /\ Len(store.edges) = 2

\* the nodes of a store whose normalized text is that of the text
NodesWithText(nodes, text) ==
    {i \in DOMAIN nodes : normalize_text(nodes[i].text) = normalize_text(text)}
\* the lowered text begins with "i can " or with "students can "
BeginsWithOutcomePhrase(text) ==
    /\ Len(text) >= 4
    /\ SubSeq(ToLowercase(text), 1, 4)
           \in {<<"i", " ", "can", " ">>, <<"students", " ", "can", " ">>}
\* a proposal that only a duplicate text can make the adder reject
OtherwiseValid(p) ==
    /\ p.granularity = "Sentence"
    /\ p.level <= MAX_NODE_LEVEL
    /\ is_single_sentence(clean_text(p.text))
    /\ p.kind = "LearningOutcome" => BeginsWithOutcomePhrase(clean_text(p.text))
\* a sequence without its k-th element
Without(s, k) == SubSeq(s, 1, k - 1) \o SubSeq(s, k + 1, Len(s))

\* C17: no two nodes of the store have the same normalized text; in every
\* AddNodes batch the store's nodes grow by one node per accepted proposal, in
\* order; a proposal whose normalized text is that of a node of the store
\* before the batch or of a proposal accepted earlier in the batch is
\* rejected; and an otherwise valid proposal whose normalized text is new
\* (the first occurrence) is accepted and stored with its cleaned text.
C17_NormalizedTextsUnique ==
    /\ [](\A i, j \in DOMAIN store.nodes :
              normalize_text(store.nodes[i].text) = normalize_text(store.nodes[j].text)
                  => i = j)
    /\ [][(graph_msg'.kind = "AddNodes") =>
            LET ps == graph_msg'.proposals
                ds == Unwrap(decisions')
                before == Len(store.nodes)
                EarlierAccepted(k) ==
                    {j \in 1..(k - 1) :
                        ds[j].accepted /\ normalize_text(ps[j].text) = normalize_text(ps[k].text)}
                Repeats(k) ==
                    NodesWithText(store.nodes, ps[k].text) # {} \/ EarlierAccepted(k) # {}
            IN /\ Len(ds) = Len(ps)
               /\ Len(store'.nodes) = before + AcceptedBefore(ds, Len(ds) + 1)
               /\ SubSeq(store'.nodes, 1, before) = store.nodes
               /\ \A k \in DOMAIN ps :
                      /\ Repeats(k) => ~ds[k].accepted
                      /\ (OtherwiseValid(ps[k]) /\ ~Repeats(k)) =>
                             LET node == store'.nodes[before + AcceptedBefore(ds, k) + 1] IN
                             /\ ds[k] = Accepted(Some(node.id))
                             /\ node.text = clean_text(ps[k].text)
                             /\ node.kind = ps[k].kind]_vars

\* a batch whose proposal differs in case and white space from the text of a
\* node accepted from an earlier batch, and was rejected as a duplicate
C17_Witness ==
    /\ HandledNodes
    /\ graph_msg.proposals = <<NodeProposals.ArraysAgain>>
    /\ decisions = Some(<<Rejected(<<"duplicate node already present">>)>>)
    /\ \E i \in DOMAIN store.nodes : store.nodes[i].text = NodeTexts.Arrays

\* a first occurrence accepted and its repetition in the same batch rejected
C17_WitnessSameBatch ==
    /\ HandledNodes
    /\ graph_msg.proposals = <<NodeProposals.ArraysAgain, NodeProposals.ArraysConcept>>
    /\ Len(store.nodes) = 1
    /\ decisions = Some(<<Accepted(Some(store.nodes[1].id)),
                          Rejected(<<"duplicate node within batch">>)>>)

\* C18: every LearningOutcome node of the store has a text that begins, in
\* any letter case, with "I can " or "Students can "; in every AddNodes batch
\* a LearningOutcome proposal whose cleaned text lacks that prefix is
\* rejected, and the batch leaves the store and decides its other proposals
\* exactly as the batch without that proposal would.
C18_OutcomePrefix ==
    /\ [](\A i \in DOMAIN store.nodes :
              store.nodes[i].kind = "LearningOutcome"
                  => BeginsWithOutcomePhrase(store.nodes[i].text))
    /\ [][(graph_msg'.kind = "AddNodes") =>
            LET ps == graph_msg'.proposals
                ds == Unwrap(decisions')
            IN \A k \in DOMAIN ps :
                   (/\ ps[k].kind = "LearningOutcome"
                    /\ ~BeginsWithOutcomePhrase(clean_text(ps[k].text)))
                   => LET alone == handle_add_nodes(store, uuids, Without(ps, k), {}) IN
                      /\ ~ds[k].accepted
                      /\ alone.store = store'
                      /\ alone.decisions = Without(ds, k)]_vars

\* a batch whose first proposal, a learning outcome without the prefix, was
\* rejected and whose second, a valid learning outcome, was accepted
C18_Witness ==
    /\ HandledNodes
    /\ graph_msg.proposals = <<NodeProposals.LoopsOutcome, NodeProposals.ICanOutcome>>
    /\ Len(store.nodes) >= 1
    /\ LET node == store.nodes[Len(store.nodes)] IN
       /\ node.kind = "LearningOutcome"
       /\ node.text = NodeTexts.ICan
       /\ decisions = Some(<<Rejected(<<"learning outcomes must start with 'I can' or 'Students can'">>),
                             Accepted(Some(node.id))>>)

\* C37: after any sequence of AddEdges batches the store never holds two
\* edges with the same from node, to node and relation, also when an edge with
\* another relation lies between the same two nodes.
C37_NoDuplicateEdges ==
    \A j, k \in DOMAIN store.edges :
        (/\ store.edges[j].from = store.edges[k].from
         /\ store.edges[j].to = store.edges[k].to
         /\ store.edges[j].relation = store.edges[k].relation)
        => j = k

\* C38: after any sequence of AddNodes and AddEdges batches, every edge of
\* the store joins two different nodes that are both in the store and has a
\* rationale that is not empty, and every PrerequisiteFor edge starts at a
\* Concept node whose level is at most the level of the node it points to.
C38_StoredEdgesWellFormed ==
    \A k \in DOMAIN store.edges :
        LET e == store.edges[k] IN
        /\ e.from # e.to
        /\ e.from \in DOMAIN store.nodes
        /\ e.to \in DOMAIN store.nodes
        /\ e.rationale # <<>>
        /\ e.relation = "PrerequisiteFor"
              => /\ store.nodes[e.from].kind = "Concept"
                 /\ store.nodes[e.from].level <= store.nodes[e.to].level

\* a store that holds a PrerequisiteFor edge into a node of a higher level
\* and a Supports edge out of that node down to level 0, right after a batch
\* whose PrerequisiteFor proposal down a level was rejected
C38_Witness ==
    /\ HandledEdges
    /\ graph_msg.proposals = <<EdgeProposal("PrerequisiteFor", 3, 1, <<"because">>)>>
    /\ decisions = Some(<<Rejected(<<"prerequisite edges must not decrease level">>)>>)
    /\ \E j, k \in DOMAIN store.edges :
           /\ store.edges[j].relation = "PrerequisiteFor"
           /\ store.nodes[store.edges[j].from].level < store.nodes[store.edges[j].to].level
           /\ store.edges[k].relation = "Supports"
           /\ store.nodes[store.edges[k].from].level > store.nodes[store.edges[k].to].level

\* m extended by the keys of added, each with the position added gives it
Inserted(m, added) ==
    [x \in DOMAIN m \cup DOMAIN added |-> IF x \in DOMAIN added THEN added[x] ELSE m[x]]

\* C39: a batch of AddNodes or AddEdges is answered by one decision for each
\* proposal, in the order of the proposals; the store after the batch is the
\* store before it with one node or one edge more for each accepted proposal,
\* in that order, and nothing else changed: a rejected proposal leaves nodes,
\* edges, text index and id index alone; the decision that accepts a node
\* carries the id of the node stored for it.
C39_OneDecisionPerProposal ==
    [][LET ps == graph_msg'.proposals
           ds == Unwrap(decisions')
           acc == {k \in DOMAIN ps : ds[k].accepted}
       IN
       /\ (graph_msg'.kind = "AddNodes") =>
            LET pos(k) == Len(store.nodes) + AcceptedBefore(ds, k) + 1
                stored(k) == store'.nodes[pos(k)]
            IN
            /\ Len(ds) = Len(ps)
            /\ Len(store'.nodes) = Len(store.nodes) + Cardinality(acc)
            /\ SubSeq(store'.nodes, 1, Len(store.nodes)) = store.nodes
            /\ store'.edges = store.edges
            /\ \A k \in DOMAIN ps :
                   IF k \in acc
                   THEN /\ stored(k).text = clean_text(ps[k].text)
                        /\ stored(k).kind = ps[k].kind
                        /\ stored(k).level = ps[k].level
                        /\ ds[k].assigned_id = Some(stored(k).id)
                        /\ ds[k].reason = None
                        /\ stored(k).id \notin DOMAIN store.id_index
                        /\ normalize_text(stored(k).text) \notin DOMAIN store.text_index
                        /\ \A j \in acc : stored(j).id = stored(k).id => j = k
                   ELSE ds[k].reason # None /\ ds[k].assigned_id = None
            /\ store'.text_index =
                   Inserted(store.text_index,
                            [t \in {normalize_text(stored(k).text) : k \in acc} |->
                                CHOOSE i \in {pos(k) : k \in acc} :
                                    normalize_text(store'.nodes[i].text) = t])
            /\ store'.id_index =
                   Inserted(store.id_index,
                            [u \in {stored(k).id : k \in acc} |->
                                CHOOSE i \in {pos(k) : k \in acc} : store'.nodes[i].id = u])
       /\ (graph_msg'.kind = "AddEdges") =>
            LET stored(k) == store'.edges[Len(store.edges) + AcceptedBefore(ds, k) + 1] IN
            /\ Len(ds) = Len(ps)
            /\ Len(store'.edges) = Len(store.edges) + Cardinality(acc)
            /\ SubSeq(store'.edges, 1, Len(store.edges)) = store.edges
            /\ store'.nodes = store.nodes
            /\ store'.text_index = store.text_index
            /\ store'.id_index = store.id_index
            /\ \A k \in DOMAIN ps :
                   IF k \in acc
                   THEN /\ stored(k).from = store.id_index[ps[k].from_id]
                        /\ stored(k).to = store.id_index[ps[k].to_id]
                        /\ stored(k).relation = ps[k].relation
                        /\ stored(k).rationale = Trim(ps[k].rationale)
                        /\ ds[k] = Accepted(None)
                   ELSE ds[k].reason # None /\ ds[k].assigned_id = None
      ]_vars

\* a batch of four node proposals on a store that holds the first two: two
\* rejections followed by two acceptances that carry the ids of the third
\* and the fourth node of the store
C39_Witness ==
    /\ HandledNodes
    /\ Len(graph_msg.proposals) = 4
    /\ Len(store.nodes) = 4
    /\ decisions = Some(<<Rejected(<<"duplicate node already present">>),
                          Rejected(<<"duplicate node already present">>),
                          Accepted(Some(store.nodes[3].id)),
                          Accepted(Some(store.nodes[4].id))>>)

\* a batch of two edge proposals of which the first was rejected and the
\* second stored, on a store that held an edge before
C39_WitnessEdges ==
    /\ HandledEdges
    /\ Len(graph_msg.proposals) = 2
    /\ Len(store.edges) = 2
    /\ decisions = Some(<<Rejected(<<"unknown from_id {}", Uuid(9)>>), Accepted(None)>>)
    /\ store.edges[2].relation = graph_msg.proposals[2].relation

\* ------------------------------------------------------------------------
\* Properties of the delegation tree (SpecTree)

\* the Agents of the tree under a, a included
RECURSIVE TreeNodes(_)
TreeNodes(a) == {a} \cup UNION {TreeNodes(kid) : kid \in DOMAIN a.kids}

\* the number of Agents at depth d under a, a included, whose pc is in pcs
RECURSIVE TreeCount(_, _, _)
RECURSIVE TreeCountKids(_, _, _, _)
TreeCount(a, d, pcs) ==
    (IF a.depth = d /\ a.pc \in pcs THEN 1 ELSE 0) + TreeCountKids(a.kids, DOMAIN a.kids, d, pcs)
TreeCountKids(kids, todo, d, pcs) ==
    IF todo = {} THEN 0
    ELSE LET kid == CHOOSE x \in todo : TRUE IN
         kids[kid] * TreeCount(kid, d, pcs) + TreeCountKids(kids, todo \ {kid}, d, pcs)

\* C31: in a delegation tree started by a top-level Agent at depth 0 every
\* Agent has a depth of at most max_subdelegations, a child is one level
\* below its parent, and an Agent at the ceiling has no children; with the
\* default ceiling of 2 the Agents are at depths 0, 1 and 2 only.
C31_TreeDepthBounded ==
    /\ tree.depth = 0
    /\ \A a \in TreeNodes(tree) :
           /\ a.max_subdelegations = max_subdelegations
           /\ a.depth <= max_subdelegations
           /\ \A kid \in DOMAIN a.kids : kid.depth = a.depth + 1
           /\ a.depth = max_subdelegations => a.pc = "awaiting" /\ DOMAIN a.kids = {}
           /\ max_subdelegations = DEFAULT_MAX_SUBDELEGATIONS => a.depth \in {0, 1, 2}

\* under the default ceiling, an Agent at depth 2 has just been refused a
\* delegate_subtask call, while Agents are alive at depths 0, 1 and 2
C31_Witness ==
    /\ max_subdelegations = DEFAULT_MAX_SUBDELEGATIONS
    /\ tree_last = [kind |-> "refused", depth |-> 2]
    /\ {a.depth : a \in TreeNodes(tree)} = {0, 1, 2}

\* C34: the concurrency limit L bounds the children of each batch, not the
\* tree: at most L children are alive in one JoinSet, at most L^d Agents are
\* alive at depth d, and with L = 4 and a ceiling of 2 at most 16 backend
\* requests are in flight at once.
C34_LimitPerBatch ==
    LET L == DEFAULT_PARALLEL_DELEGATIONS
        alive == {"awaiting", "batch"}
        RECURSIVE Sum(_)
        Sum(d) == IF d < 0 THEN 0 ELSE TreeCount(tree, d, {"awaiting"}) + Sum(d - 1)
    IN /\ \A a \in TreeNodes(tree) :
              TreeCountKids(a.kids, DOMAIN a.kids, a.depth + 1, alive) <= L
       /\ \A d \in 0..(DEFAULT_MAX_SUBDELEGATIONS + 1) : TreeCount(tree, d, alive) <= L ^ d
       /\ Sum(DEFAULT_MAX_SUBDELEGATIONS + 1) <= L ^ max_subdelegations
       /\ L = 4 /\ max_subdelegations = 2 => Sum(DEFAULT_MAX_SUBDELEGATIONS + 1) <= 16

\* sixteen Agents at depth 2 with a request in flight each, four times the
\* limit, under four Agents at depth 1 that are each in a batch
C34_Witness ==
    /\ TreeCount(tree, 2, {"awaiting"}) = 16
    /\ TreeCount(tree, 1, {"batch"}) = DEFAULT_PARALLEL_DELEGATIONS
    /\ TreeCount(tree, 2, {"awaiting"}) > DEFAULT_PARALLEL_DELEGATIONS

\* ------------------------------------------------------------------------
\* Properties of the delegation scheduler (SpecBatch)

Running == {i \in DOMAIN join_set : join_set[i].state = "running"}
Joined == {i \in DOMAIN join_set : join_set[i].state = "joined"}
BatchReturned == batch_pc = "returned"
BatchOk == BatchReturned /\ Unwrap(batch_ret).ok
PanicJoined == \E i \in Joined : join_set[i].outcome = Panic

\* C1: a batch of T >= 1 subtasks none of whose children crashed returns, in
\* whatever order the children completed, a results list of length T whose
\* i-th entry names the i-th submitted subtask and carries the outcome of
\* the child launched for index i.
C1_ResultsInSubmissionOrder ==
    (BatchReturned /\ Total >= 1 /\ ~PanicJoined) =>
        /\ BatchOk
        /\ LET res == Unwrap(batch_ret).value.results IN
           /\ Len(res) = Total
           /\ \A i \in 1..Total :
                /\ res[i].subtask = subtasks[i]
                /\ join_set[i].state = "joined"
                /\ res[i] = BatchEntry(subtasks[i], join_set[i].outcome)

\* A batch with more subtasks than the limit returned after a child with a
\* distinguishable subtask and a failing child were joined.
C1_Witness ==
    /\ BatchOk
    /\ Total > DEFAULT_PARALLEL_DELEGATIONS
    /\ \E i, j \in 1..Total : subtasks[i] # subtasks[j]
    /\ \E i, j \in 1..Total : join_set[i].outcome.ok /\ ~join_set[j].outcome.ok

\* C2: at every moment of a batch the number of children launched and not
\* yet completed is at most L = min(clamp(4, 1, 8), T), hence at most 4; the
\* `active` counter (launched and not yet joined) obeys the same limit.
C2_BoundedConcurrency ==
    LET L == Min(Max(1, Min(DEFAULT_PARALLEL_DELEGATIONS, MAX_PARALLEL_DELEGATIONS)), Total) IN
    /\ Cardinality(Running) <= L
    /\ Cardinality(Running) <= 4
    /\ active <= L
    /\ Cardinality({i \in DOMAIN join_set : join_set[i].state \in {"running", "finished"}})
          <= active

\* A batch of more than four subtasks has four children running after an
\* earlier child was joined and its successor launched.
C2_Witness ==
    /\ batch_pc = "joining"
    /\ Total > DEFAULT_PARALLEL_DELEGATIONS
    /\ Cardinality(Running) = 4
    /\ Joined # {}

\* the subtasks launched and not yet joined, and those ever launched
InFlight == {i \in DOMAIN join_set : join_set[i].state \in {"running", "finished"}}
Launched == {i \in DOMAIN join_set : join_set[i].state # "unspawned"}

\* C23 as stated, in its last clause: every subtask of a batch that has
\* returned was launched.
C23_EverySubtaskLaunched == BatchReturned => Launched = 1..Total

\* C23: while the scheduler waits for a child, the children launched and not
\* yet joined are min(L, T - joined) in number, the value of the active
\* counter, so that every child joined with ok or an error has been followed
\* by the launch of the next subtask not yet started while there was one:
\* the subtasks launched are the first min(T, L + joined) of the list. Each
\* was launched by one of the pending - 1 calls of spawn_delegate_task, with
\* its own index and text, so none was launched twice. A batch that returns
\* without a child's crash has launched and joined every subtask (a batch
\* aborted by a crash leaves the later ones unlaunched).
C23_WorkConserving ==
    /\ batch_pc = "joining" =>
            /\ Cardinality(InFlight) = Min(limit, Total - Cardinality(Joined))
            /\ active = Cardinality(InFlight)
            /\ limit = Min(DEFAULT_PARALLEL_DELEGATIONS, Total)
            /\ Launched = 1..Min(Total, limit + Cardinality(Joined))
            /\ \A i \in Joined : join_set[i].outcome # Panic
    /\ batch_pc \in {"joining", "returned"} /\ Total > 0 =>
            /\ Launched = 1..(pending - 1)
            /\ \A i \in Launched : join_set[i].idx = i /\ join_set[i].subtask = subtasks[i]
    /\ BatchReturned /\ ~PanicJoined /\ Total > 0 =>
            /\ Launched = 1..Total
            /\ Joined = 1..Total
            /\ BatchOk

\* the scheduler waits with four children in flight after it joined a child
\* that ended in an error and launched the fifth subtask in that step
C23_Witness ==
    /\ batch_pc = "joining"
    /\ Total = 5
    /\ Cardinality(Joined) = 1
    /\ \A i \in Joined : ~join_set[i].outcome.ok
    /\ Cardinality(InFlight) = 4
    /\ join_set[5].state = "running"

\* C36: the k-th call of spawn_delegate_task launches the child of the k-th
\* subtask, so the children are launched in increasing index order and child
\* i is launched before child j for i < j; the first L = min(4, T) are
\* launched before any child is joined, and a child after the L-th, the
\* k-th, is launched when at least k - L children have been joined (counting
\* subtasks from 0: subtask j >= L after at least j - L + 1).
C36_LaunchOrder ==
    batch_pc \in {"joining", "returned"} /\ Total > 0 =>
        /\ Launched = 1..Len(spawn_log)
        /\ \A k \in 1..Len(spawn_log) :
              /\ spawn_log[k].idx = k
              /\ IF k <= Min(DEFAULT_PARALLEL_DELEGATIONS, Total)
                 THEN spawn_log[k].joined = 0
                 ELSE /\ spawn_log[k].joined >= k - DEFAULT_PARALLEL_DELEGATIONS
                      /\ spawn_log[k].joined >= 1
              /\ k > 1 => spawn_log[k - 1].joined <= spawn_log[k].joined

\* five subtasks: the fifth child was launched fifth, after one child was
\* joined, and the scheduler waits for the four in flight
C36_Witness ==
    /\ batch_pc = "joining"
    /\ Total = 5
    /\ Len(spawn_log) = 5
    /\ spawn_log[4] = [idx |-> 4, joined |-> 0]
    /\ spawn_log[5] = [idx |-> 5, joined |-> 1]
    /\ Cardinality(Joined) = 1

\* C32: when every child of a batch of T >= 1 subtasks ends without a crash,
\* run_delegate_batch eventually returns, and what it returns is the success
\* payload with the T entries; while it waits at least one child is in
\* flight, so it never waits with subtasks unstarted and none running, and
\* it never returns the missing-results error.
C32_BatchReturnsPayload ==
    /\ (Total > 0) => <>BatchOk
    /\ [](batch_pc = "joining" => active > 0 /\ InFlight # {})
    /\ [](BatchReturned /\ Total > 0 =>
            /\ Unwrap(batch_ret).ok
            /\ Unwrap(batch_ret).value.type = "delegation_batch_result"
            /\ Len(Unwrap(batch_ret).value.results) = Total)
    /\ [](batch_ret # Some(Err("missing delegate results after execution")))

\* a batch of five whose children ended ok and in error has returned its
\* payload
C32_Witness ==
    /\ BatchOk
    /\ Total = 5
    /\ Joined = 1..5
    /\ \E i \in Joined : ~join_set[i].outcome.ok
    /\ \E i \in Joined : join_set[i].outcome.ok
    /\ Len(Unwrap(batch_ret).value.results) = 5

\* C24: every child Agent the scheduler created has the depth of its parent
\* plus one and the parent's root, model and depth ceiling; no step changes
\* these fields of the parent, nor those of a child once it is created.
C24_ChildAgentFields ==
    /\ [](\A i \in Launched :
            /\ join_set[i].child.depth = depth + 1
            /\ join_set[i].child.root = root
            /\ join_set[i].child.model = model
            /\ join_set[i].child.max_subdelegations = max_subdelegations)
    /\ [][/\ root' = root /\ model' = model /\ depth' = depth
          /\ max_subdelegations' = max_subdelegations
          /\ \A i \in Launched : join_set'[i].child = join_set[i].child]_vars

\* a parent at depth 1 with the second model waits with two children
\* created, both at depth 2 with that model, one of them joined
C24_Witness ==
    /\ batch_pc = "joining"
    /\ depth = 1
    /\ model = "model-b"
    /\ Total = 2
    /\ Cardinality(Joined) = 1
    /\ \A i \in 1..2 : join_set[i].child.depth = 2 /\ join_set[i].child.model = "model-b"

\* C25: the conversation a child Agent starts from has two messages, the
\* system prompt and a user message with the child's own subtask text: it is
\* determined by that text alone, whatever the parent's conversation holds
\* and whatever the siblings' texts and outcomes are, and none of the
\* messages after the parent's system prompt is in it. No step of the parent
\* or of a sibling changes it while the child's task exists.
C25_ChildConversationFresh ==
    /\ [](\A i \in Launched :
            /\ Len(join_set[i].messages) = 2
            /\ join_set[i].messages[1] = SystemMsg
            /\ join_set[i].messages[2] = UserMsg(subtasks[i])
            /\ \A k \in 2..Len(messages) :
                   \A n \in 1..2 : join_set[i].messages[n] # messages[k])
    /\ [][\A i \in Launched :
            i \in DOMAIN join_set' => join_set'[i].messages = join_set[i].messages]_vars

\* the parent, whose conversation holds its prompt and an assistant message
\* with the delegation, waits with two children launched, one of them joined
\* with an error; the other child holds the system prompt and its own subtask
C25_Witness ==
    /\ batch_pc = "joining"
    /\ Len(messages) = 3
    /\ Total = 2
    /\ subtasks[1] # subtasks[2]
    /\ Joined = {1}
    /\ ~join_set[1].outcome.ok
    /\ join_set[2].state = "running"
    /\ join_set[2].messages = <<SystemMsg, UserMsg(subtasks[2])>>

\* C3: a child that ends in an error yields the entry with status "error" at
\* its own index; every recorded entry is determined by its own subtask and
\* its own child's outcome alone; no task is aborted and the batch does not
\* fail unless a child crashed; and a batch without a crash launches and
\* joins every subtask.
C3_FailureIsolation ==
    /\ batch_pc # "start" =>
          \A i \in 1..Total :
             /\ IsSome(results[i]) <=> (i \in Joined /\ join_set[i].outcome # Panic)
             /\ IsSome(results[i]) =>
                   Unwrap(results[i]) = BatchEntry(subtasks[i], join_set[i].outcome)
             /\ (i \in Joined /\ join_set[i].outcome \in {Err(e) : e \in ChildErrors}) =>
                   /\ Unwrap(results[i]).status = "error"
                   /\ Unwrap(results[i]).error = join_set[i].outcome.error
             /\ join_set[i].state \in {"aborted", "dropped"} => PanicJoined
    /\ (BatchReturned /\ Total >= 1 /\ ~PanicJoined) =>
          /\ BatchOk
          /\ Joined = 1..Total

\* A batch larger than the limit returned successfully although the first
\* child joined had failed: the subtasks still pending were launched and a
\* sibling's entry is "ok".
C3_Witness ==
    /\ BatchOk
    /\ Total > DEFAULT_PARALLEL_DELEGATIONS
    /\ ~join_set[1].outcome.ok
    /\ \E j \in 2..Total : Unwrap(batch_ret).value.results[j].status = "ok"
    /\ Unwrap(batch_ret).value.results[1].status = "error"

\* ------------------------------------------------------------------------
\* Properties of the path sandbox (SpecPath)

\* The entry the argument names when it is interpreted in the workspace
\* root (a relative path) or from / (an absolute one)
ResolvedTarget ==
    Walk(IF path_arg.abs THEN RootInode ELSE InodeAt(root), path_arg.comps, MaxSymlinkHops)

\* p is canonical: no "." or ".." and no symbolic link on the way
IsCanonical(p) ==
    /\ p.abs
    /\ \A k \in 1..Len(p.comps) : p.comps[k] \notin {".", ".."}
    /\ Walk(RootInode, p.comps, 0).ok

\* C10: resolve_path fails for every argument whose resolved target lies
\* outside the workspace root (or does not exist), and for every argument
\* that resolves to an entry inside the root it returns that entry's
\* canonical path, which has the root as prefix.
C10_SandboxContainment ==
    path_pc = "returned" =>
        LET t == ResolvedTarget
            r == Unwrap(path_ret)
        IN /\ ~t.ok => ~r.ok
           /\ (t.ok /\ ~IsUnder(t.value, InodeAt(root))) => ~r.ok
           /\ (t.ok /\ IsUnder(t.value, InodeAt(root))) =>
                 /\ r.ok
                 /\ r.value = AbsPath(PathOf(t.value))
                 /\ StartsWith(r.value, root)
                 /\ IsCanonical(r.value)

\* A relative argument without ".." that a symbolic link takes outside the
\* root was refused.
C10_Witness ==
    /\ path_pc = "returned"
    /\ ~path_arg.abs
    /\ \A k \in 1..Len(path_arg.comps) : path_arg.comps[k] # ".."
    /\ ResolvedTarget.ok
    /\ ~IsUnder(ResolvedTarget.value, InodeAt(root))
    /\ ~Unwrap(path_ret).ok

\* ------------------------------------------------------------------------
\* Properties of the conversation loop (SpecLoop)

HasCalls(resp) ==
    resp.kind = "message" /\ IsSome(resp.tool_calls) /\ Unwrap(resp.tool_calls) # <<>>
HasText(resp) ==
    resp.kind = "message" /\ IsSome(resp.content) /\ Trim(Unwrap(resp.content)) # <<>>
LoopTerminated == loop_pc \in {"done", "failed"}
MaxIterationsError == Err("LLM tool loop did not terminate with a message after 60 iterations")
IsToolError(content) == "type" \in DOMAIN content /\ content.type = "tool_error"
LastMessage(msgs) == msgs[Len(msgs)]

\* C5: a response with a non-empty tool-call list, with or without text,
\* never ends the loop in done: the received calls are recorded in an
\* assistant message and executed, and when the turn is over the loop is in
\* the next iteration.
C5_ToolCallsNeverFinal ==
    /\ [](HasCalls(response) => (loop_pc = "executing" /\ loop_ret = None))
    /\ [](loop_pc = "done" => ~HasCalls(response))
    /\ [][(HasCalls(response') /\ ~HasCalls(response)) =>
            /\ loop_pc = "awaiting"
            /\ messages' = Append(messages, AssistantMsg(Unwrap(response'.tool_calls)))
            /\ call_idx' = 1
            /\ iteration' = iteration]_vars
    /\ [][(loop_pc = "executing" /\ loop_pc' # "executing") =>
            /\ iteration' = iteration + 1
            /\ loop_pc' \in {"awaiting", "failed"}
            /\ loop_pc' = "failed" => iteration' = MAX_TOOL_ITERATIONS]_vars

\* The last of two calls is being executed for a response that also carried
\* text.
C5_Witness ==
    /\ loop_pc = "executing"
    /\ HasCalls(response)
    /\ HasText(response)
    /\ call_idx = 2
    /\ iteration > 0

\* C6: while a request is awaited, every response without tool calls (list
\* absent or empty) whose text is not blank is handled by moving to done in
\* the same iteration with that text, untrimmed, as the value returned; and
\* done is reached in no other way.
C6_TextIsFinal ==
    /\ loop_pc = "awaiting" =>
          \A m \in {x \in AssistantMessages(0) : HasText(x)} :
             /\ ENABLED BackendAnswers(m)
             /\ ~ENABLED (BackendAnswers(m) /\
                           ~(/\ loop_pc' = "done"
                             /\ loop_ret' = Some(Ok(Unwrap(m.content)))
                             /\ iteration' = iteration
                             /\ messages' = messages))
    /\ loop_pc = "done" =>
          /\ HasText(response)
          /\ loop_ret = Some(Ok(Unwrap(response.content)))

\* After earlier iterations, a response with an empty tool-call list and
\* padded text ended the loop with the padded text.
C6_Witness ==
    /\ loop_pc = "done"
    /\ iteration > 0
    /\ response.tool_calls = Some(<<>>)
    /\ Unwrap(response.content) # Trim(Unwrap(response.content))
    /\ loop_ret = Some(Ok(Unwrap(response.content)))

\* C21: while a request is awaited, every response without tool calls (list
\* absent or empty) whose text is absent, empty or only white space is handled
\* as a stalled turn: the conversation is left as it was, no backoff sleep is
\* taken, the iteration counter goes up by one, and the loop sends the next
\* iteration's request (or, after iteration 59, fails by exhaustion).
C21_StalledTurn ==
    loop_pc = "awaiting" =>
        \A m \in {x \in AssistantMessages(0) : ~HasText(x)} :
           /\ ENABLED BackendAnswers(m)
           /\ ~ENABLED (BackendAnswers(m) /\
                         ~(/\ messages' = messages
                           /\ iteration' = iteration + 1
                           /\ delay_ms' = 0
                           /\ loop_pc' # "backoff"
                           /\ spawned' = spawned
                           /\ IF iteration + 1 < MAX_TOOL_ITERATIONS
                              THEN /\ loop_pc' = "awaiting"
                                   /\ requests' = requests + 1
                                   /\ loop_ret' = None
                              ELSE /\ loop_pc' = "failed"
                                   /\ requests' = requests
                                   /\ loop_ret' = Some(MaxIterationsError)))

\* the request of iteration 1 is awaited with the initial conversation after
\* iteration 0 got a response: that response was a stalled turn
C21_Witness ==
    /\ loop_pc = "awaiting"
    /\ iteration = 1
    /\ got_response
    /\ messages = <<SystemMsg, UserMsg("prompt")>>
    /\ requests = 2
    /\ delay_ms = 0

\* C33: whenever a request is awaited, a response without choices can come,
\* and it ends run_conversation at once with the no-choices error: the
\* iteration counter, the requests sent, the conversation and the backoff
\* delay stay as they were, so no backoff sleep is taken, no further request
\* is sent and the turn is not counted as a stalled one. A run that failed
\* this way has used fewer than 60 iterations.
C33_NoChoicesFailsAtOnce ==
    /\ loop_pc = "awaiting" =>
           /\ ENABLED BackendNoChoices
           /\ ~ENABLED (BackendNoChoices /\
                         ~(/\ loop_pc' = "failed"
                           /\ loop_ret' = Some(Err("chat completion returned no choices"))
                           /\ response'.kind = "no_choices"
                           /\ iteration' = iteration
                           /\ requests' = requests
                           /\ messages' = messages
                           /\ delay_ms' = delay_ms))
    /\ (loop_pc = "failed" /\ response.kind = "no_choices") =>
           /\ iteration < MAX_TOOL_ITERATIONS
           /\ requests = iteration + 1
           /\ Unwrap(loop_ret) = Err("chat completion returned no choices")

\* the first response had no choices: the run has failed in iteration 0 after
\* one request, without a sleep
C33_Witness ==
    /\ loop_pc = "failed"
    /\ response.kind = "no_choices"
    /\ iteration = 0
    /\ requests = 1
    /\ delay_ms = 0
    /\ Len(messages) = 2

\* C22: the conversation begins with the system message and the user prompt
\* and is those two alone when the loop is entered; every step leaves the
\* conversation it found as a prefix of the one it leaves; and the request a
\* step sends, like the request awaited in any state, carries the whole
\* conversation as it is then.
C22_ConversationAppendOnly ==
    /\ [](/\ Len(messages) >= 2
          /\ SubSeq(messages, 1, 2) = <<SystemMsg, UserMsg("prompt")>>
          /\ (iteration = 0 /\ loop_pc = "awaiting") => Len(messages) = 2
          /\ loop_pc = "awaiting" => request = messages)
    /\ [][/\ Len(messages') >= Len(messages)
          /\ SubSeq(messages', 1, Len(messages)) = messages]_vars
    /\ [][(requests' # requests) => (request' = messages')]_vars

\* the request awaited after a tool turn of two calls: it carries the five
\* messages, of which the first two were sent with the first request
C22_Witness ==
    /\ loop_pc = "awaiting"
    /\ iteration = 1
    /\ Len(messages) = 5
    /\ Len(request) = 5
    /\ request[3].role = "assistant"
    /\ request[4].role = "tool"
    /\ request[5].role = "tool"

\* A measure that every step of the loop decreases
LoopMeasure ==
    (MAX_TOOL_ITERATIONS - iteration) * (MaxCalls + 3)
      + (CASE loop_pc = "awaiting" -> MaxCalls + 2
           [] loop_pc = "executing" -> MaxCalls + 1 - call_idx
           [] loop_pc = "backoff" -> 1
           [] OTHER -> 0)

\* The loop can take the step its position calls for: the request can fail or
\* come back without choices, the backoff sleep returns, the tool call returns
LoopCanStep ==
    CASE loop_pc = "awaiting" ->
            /\ ENABLED BackendNoChoices
            /\ \A kind \in {"error", "timeout"} : ENABLED BackendFails(kind)
      [] loop_pc = "backoff" -> ENABLED BackoffDone
      [] loop_pc = "executing" ->
            \E o \in ExecuteTool(TurnCalls[call_idx], root, depth, max_subdelegations) :
                ENABLED ToolReturns(o)
      [] OTHER -> FALSE

\* C7 as stated: a run that has ended without reaching done has failed with
\* the maximum-iterations error.
C7_FailedOnlyByExhaustion ==
    loop_pc = "failed" => Unwrap(loop_ret) = MaxIterationsError

\* C7, amended: every run ends in done or failed after at most 60 requests:
\* each request is one iteration, whether it fails, carries tool calls or
\* stalls (requests = iteration + 1 while the loop runs), every step
\* decreases LoopMeasure, and a loop that has not ended can take a step.  A
\* run fails with the maximum-iterations error exactly when its 60
\* iterations are used up; the only other failure is a response without
\* choices.
C7_BoundedIterations ==
    /\ [](/\ requests <= MAX_TOOL_ITERATIONS
          /\ iteration <= MAX_TOOL_ITERATIONS
          /\ ~LoopTerminated => (requests = iteration + 1 /\ iteration < MAX_TOOL_ITERATIONS)
          /\ ~LoopTerminated => LoopCanStep
          /\ LoopTerminated => (IsSome(loop_ret) /\ Unwrap(loop_ret).ok = (loop_pc = "done"))
          /\ loop_pc = "failed" =>
                IF iteration = MAX_TOOL_ITERATIONS
                THEN Unwrap(loop_ret) = MaxIterationsError /\ requests = MAX_TOOL_ITERATIONS
                ELSE /\ response.kind = "no_choices"
                     /\ Unwrap(loop_ret) = Err("chat completion returned no choices"))
    /\ [][LoopMeasure' < LoopMeasure /\ ~LoopTerminated]_vars

\* The sixtieth request failed like the ones before and the loop gave up.
C7_Witness ==
    /\ loop_pc = "failed"
    /\ iteration = MAX_TOOL_ITERATIONS
    /\ requests = MAX_TOOL_ITERATIONS
    /\ Unwrap(loop_ret) = MaxIterationsError
    /\ Len(messages) > 2

\* The contents execute_tool's outcomes give the tool message of a call made
\* by an agent at depth d of the conversations explored, and whether every
\* outcome is a failure; tabulated once for the calls of LoopToolCalls
ToolContentsAt ==
    [call \in LoopToolCalls, d \in 0..DEFAULT_MAX_SUBDELEGATIONS |->
        {IF o.ret.ok THEN o.ret.value
         ELSE [type |-> "tool_error", tool |-> call.name,
               arguments |-> IF "json" \in DOMAIN call.arguments THEN call.arguments.json
                             ELSE JStr(call.arguments.garbage),
               message |-> o.ret.error] :
            o \in ExecuteTool(call, AbsPath(<<"ws">>), d,
                              DEFAULT_MAX_SUBDELEGATIONS)}]
ToolAlwaysFailsAt ==
    [call \in LoopToolCalls, d \in 0..DEFAULT_MAX_SUBDELEGATIONS |->
        \A o \in ExecuteTool(call, AbsPath(<<"ws">>), d,
                              DEFAULT_MAX_SUBDELEGATIONS) : ~o.ret.ok]
ToolContents(call) == ToolContentsAt[call, depth]
ToolAlwaysFails(call) == ToolAlwaysFailsAt[call, depth]

\* C8: the step that ends a tool call appends exactly one tool message for
\* that call; when the call failed the message holds the tool_error payload
\* (tool, arguments, message of the error); and the loop goes on with the
\* next call of the turn or with the next iteration.  It is in failed after
\* the step only if that was the last call of the last iteration.
C8_ToolFailureIsLocal ==
    [][loop_pc = "executing" =>
         LET call == TurnCalls[call_idx]
             msg == LastMessage(messages')
         IN /\ messages' = Append(messages, msg)
            /\ msg.role = "tool"
            /\ msg.tool_call_id = call.id
            /\ msg.content \in ToolContents(call)
            /\ ToolAlwaysFails(call) => IsToolError(msg.content)
            /\ IF call_idx < Len(TurnCalls)
               THEN loop_pc' = "executing" /\ call_idx' = call_idx + 1 /\ loop_ret' = None
               ELSE \/ loop_pc' = "awaiting" /\ iteration' = iteration + 1 /\ loop_ret' = None
                    \/ /\ loop_pc' = "failed"
                       /\ iteration = MAX_TOOL_ITERATIONS - 1
                       /\ Unwrap(loop_ret') = MaxIterationsError]_vars

\* The first call of a turn failed, its tool_error message is in the
\* conversation, and the second call is being executed.
C8_Witness ==
    /\ loop_pc = "executing"
    /\ call_idx = 2
    /\ ToolAlwaysFails(TurnCalls[1])
    /\ LastMessage(messages).role = "tool"
    /\ IsToolError(LastMessage(messages).content)
    /\ LastMessage(messages).content.tool = TurnCalls[1].name

\* The conversation from position i on: turns of one assistant message with
\* k >= 1 calls followed by the k tool messages of its calls, in order, each
\* with the id of its call.  "complete" when every turn has all its tool
\* messages, "partial" when the last turn is the one being executed and has
\* the messages of the calls before call_idx, "bad" otherwise.
RECURSIVE TurnsFrom(_, _)
TurnsFrom(msgs, i) ==
    IF i > Len(msgs) THEN "complete"
    ELSE IF msgs[i].role # "assistant" \/ Len(msgs[i].tool_calls) = 0 THEN "bad"
    ELSE LET calls == msgs[i].tool_calls
             k == Len(calls)
             have == Min(k, Len(msgs) - i)
             answered == \A j \in 1..have :
                            /\ msgs[i + j].role = "tool"
                            /\ msgs[i + j].tool_call_id = calls[j].id
                            /\ msgs[i + j].content \in ToolContents(calls[j])
         IN IF ~answered THEN "bad"
            ELSE IF have = k THEN TurnsFrom(msgs, i + k + 1)
            ELSE IF loop_pc = "executing" /\ calls = TurnCalls /\ call_idx = have + 1
                 THEN "partial"
                 ELSE "bad"

\* C9: after [system, user] the conversation consists of turns of exactly
\* k + 1 messages for k tool calls: the assistant message recording the
\* calls, then one tool message per call in the order of the calls, the
\* j-th with the id of the j-th call, whether the call succeeded or failed.
C9_OneToolMessagePerCall ==
    loop_pc # "idle" =>
        /\ root = AbsPath(<<"ws">>)
        /\ max_subdelegations = DEFAULT_MAX_SUBDELEGATIONS
        /\ SubSeq(messages, 1, 2) = <<SystemMsg, UserMsg("prompt")>>
        /\ TurnsFrom(messages, 3) = IF loop_pc = "executing" THEN "partial" ELSE "complete"

\* A turn of two calls with different ids, one failed and one succeeded, is
\* over: the conversation has grown by three messages.
C9_Witness ==
    /\ loop_pc = "awaiting"
    /\ Len(messages) = 5
    /\ messages[3].role = "assistant"
    /\ Len(messages[3].tool_calls) = 2
    /\ messages[3].tool_calls[1].id # messages[3].tool_calls[2].id
    /\ IsToolError(messages[4].content)
    /\ ~IsToolError(messages[5].content)

\* C13: the payload of a batch that completes has requested = T, the number
\* of subtasks submitted, max_concurrency = min(clamp(4, 1, 8), T), the limit
\* the scheduler applied, and T entries in results; for two subtasks whose
\* children both succeed: requested 2, max_concurrency 2, both entries "ok".
C13_BatchPayloadCounts ==
    BatchOk =>
        LET payload == Unwrap(batch_ret).value IN
        /\ payload.type = "delegation_batch_result"
        /\ payload.requested = Total
        /\ payload.max_concurrency = Min(Min(Max(4, 1), 8), Total)
        /\ payload.max_concurrency = limit
        /\ Len(payload.results) = Total
        /\ (Total = 2 /\ \A i \in 1..2 : join_set[i].outcome.ok) =>
              /\ payload.requested = 2
              /\ payload.max_concurrency = 2
              /\ \A i \in 1..2 : payload.results[i].status = "ok"

\* A batch of two subtasks whose children both succeeded has returned.
C13_Witness ==
    /\ BatchOk
    /\ Total = 2
    /\ \A i \in 1..2 : join_set[i].outcome.ok
    /\ Unwrap(batch_ret).value.requested = 2
    /\ Unwrap(batch_ret).value.max_concurrency = 2

\* A batch of more subtasks than the configured limit has returned.
C13_WitnessCapped ==
    /\ BatchOk
    /\ Total > DEFAULT_PARALLEL_DELEGATIONS
    /\ Unwrap(batch_ret).value.max_concurrency = DEFAULT_PARALLEL_DELEGATIONS

\* ------------------------------------------------------------------------
\* Properties of a parent Agent and its delegation batches (SpecDelegate)

DelegateOutcome == ToolOutcome(Unwrap(batch_ret), BatchSpawned, None)

\* C14: when a child task of a batch crashes (join_next gives a join error),
\* run_delegate_batch returns an error and no payload, even if entries of
\* other children were recorded already; the parent's loop turns that error
\* into the tool_error tool message of the delegate_subtask call and goes on
\* with the next call or the next iteration, and does not fail (other than
\* by having used its 60 iterations).
C14_CrashAbortsBatchOnly ==
    /\ []((BatchReturned /\ PanicJoined) =>
            /\ ~Unwrap(batch_ret).ok
            /\ Unwrap(batch_ret) = Err("delegate subtask panicked")
            /\ DelegateOutcome \in
                  ExecuteTool(TurnCalls[call_idx], root, depth, max_subdelegations)
            /\ loop_pc = "executing"
            /\ loop_ret = None)
    /\ [][(BatchReturned /\ PanicJoined) =>
            LET call == TurnCalls[call_idx]
                msg == LastMessage(messages')
            IN /\ messages' = Append(messages, msg)
               /\ msg.role = "tool"
               /\ msg.tool_call_id = call.id
               /\ msg.content = [type |-> "tool_error", tool |-> "delegate_subtask",
                                 arguments |-> call.arguments.json,
                                 message |-> "delegate subtask panicked"]
               /\ IF call_idx < Len(TurnCalls)
                  THEN loop_pc' = "executing" /\ call_idx' = call_idx + 1 /\ loop_ret' = None
                  ELSE \/ loop_pc' = "awaiting" /\ iteration' = iteration + 1 /\ loop_ret' = None
                       \/ /\ loop_pc' = "failed"
                          /\ iteration = MAX_TOOL_ITERATIONS - 1
                          /\ Unwrap(loop_ret') = MaxIterationsError]_vars

\* A child of a batch of two crashed after the entry of the other child was
\* recorded; the batch has returned its error and the parent is about to
\* push the tool message, with another call of the turn still to run.
C14_Witness ==
    /\ BatchReturned
    /\ PanicJoined
    /\ Total = 2
    /\ \E i \in 1..Total : IsSome(results[i])
    /\ loop_pc = "executing"
    /\ call_idx < Len(TurnCalls)

\* After the crash of a child the parent's loop has pushed the tool_error
\* message and issued its next request.
C14_WitnessContinued ==
    /\ loop_pc = "awaiting"
    /\ iteration > 0
    /\ Len(messages) > 2
    /\ IsToolError(LastMessage(messages).content)
    /\ LastMessage(messages).content.message = "delegate subtask panicked"

\* C28: from the entry of run_delegate_batch to its return the parent is in
\* the delegate_subtask call: no step changes its conversation, its position
\* in the tool calls, its iteration or its requests. The step that does is
\* taken after the batch has returned, with every child joined or with the
\* crash of a child joined, and appends the tool message of that call: the
\* payload with the entries of all T children, or the tool_error of the
\* abort. A payload in the conversation has as many entries as it says were
\* requested.
C28_ParentBlockedOnBatch ==
    /\ [](batch_pc # "idle" =>
            /\ loop_pc = "executing"
            /\ TurnCalls[call_idx].name = "delegate_subtask"
            /\ BatchReturned => (Joined = 1..Total /\ Total > 0) \/ PanicJoined)
    /\ [][(batch_pc # "idle" /\ loop_vars' # loop_vars) =>
            /\ BatchReturned
            /\ batch_pc' = "idle"
            /\ messages' = Append(messages, LastMessage(messages'))
            /\ LastMessage(messages').role = "tool"
            /\ LastMessage(messages').tool_call_id = TurnCalls[call_idx].id
            /\ IF PanicJoined
               THEN LastMessage(messages').content.type = "tool_error"
               ELSE /\ LastMessage(messages').content.type = "delegation_batch_result"
                    /\ LastMessage(messages').content.requested = Total
                    /\ Len(LastMessage(messages').content.results) = Total
                    /\ \A i \in 1..Total :
                          LastMessage(messages').content.results[i].subtask = subtasks[i]]_vars
    /\ [](\A k \in 1..Len(messages) :
            (/\ messages[k].role = "tool"
             /\ "requested" \in DOMAIN messages[k].content) =>
                Len(messages[k].content.results) = messages[k].content.requested)

\* the parent has gone on to its next request after a batch of two children:
\* its conversation ends with the payload of both, one ok and one in error
C28_Witness ==
    /\ loop_pc = "awaiting"
    /\ batch_pc = "idle"
    /\ iteration = 1
    /\ LastMessage(messages).role = "tool"
    /\ "requested" \in DOMAIN LastMessage(messages).content
    /\ LastMessage(messages).content.requested = 2
    /\ LastMessage(messages).content.results[1].status = "error"
    /\ LastMessage(messages).content.results[2].status = "ok"

\* The tool messages pushed since the last assistant message
TurnResults ==
    LET last == CHOOSE i \in DOMAIN messages :
                    /\ messages[i].role = "assistant"
                    /\ \A j \in DOMAIN messages : messages[j].role = "assistant" => j <= i
    IN [j \in 1..(Len(messages) - last) |-> messages[last + j]]
InToolCall == loop_pc = "executing"
BatchInProgress == batch_pc # "idle"

\* C15: an Agent has at most one backend request in flight, and has one
\* exactly while it awaits the response; while it executes a tool call it
\* has none.  The calls of a turn run one at a time in the order received: a
\* batch runs only for the call at call_idx, the results pushed in the turn
\* are those of the calls before call_idx in their order, and call_idx moves
\* to the next call only in the step that pushes the result of the call
\* before, with no batch left running.
C15_OneRequestSequentialTools ==
    /\ [](/\ in_flight \in {0, 1}
          /\ (in_flight = 1) <=> (loop_pc = "awaiting")
          /\ InToolCall => in_flight = 0
          /\ BatchInProgress =>
                /\ InToolCall
                /\ in_flight = 0
                /\ BatchOfCall(TurnCalls[call_idx], depth, max_subdelegations) = Some(subtasks)
          /\ InToolCall =>
                /\ call_idx \in 1..Len(TurnCalls)
                /\ Len(TurnResults) = call_idx - 1
                /\ \A j \in 1..(call_idx - 1) :
                      /\ TurnResults[j].role = "tool"
                      /\ TurnResults[j].tool_call_id = TurnCalls[j].id)
    /\ [][(InToolCall /\ (call_idx' # call_idx \/ ~InToolCall')) =>
            /\ ~BatchInProgress'
            /\ messages' = Append(messages, LastMessage(messages'))
            /\ LastMessage(messages').role = "tool"
            /\ LastMessage(messages').tool_call_id = TurnCalls[call_idx].id
            /\ InToolCall' => (call_idx' = call_idx + 1 /\ response' = response)]_vars
    /\ [][(InToolCall /\ messages' # messages) =>
            (call_idx' # call_idx \/ ~InToolCall')]_vars
    /\ [][requests' # requests =>
            /\ requests' = requests + 1
            /\ in_flight' = 1
            /\ loop_pc' = "awaiting"
            /\ iteration' = iteration + 1
            /\ (loop_pc # "awaiting") => (in_flight = 0)]_vars

\* The second call of a turn is a batch with a child running, after the
\* first call's result was pushed; the parent has no request in flight.
C15_Witness ==
    /\ InToolCall
    /\ call_idx = 2
    /\ batch_pc = "joining"
    /\ Running # {}
    /\ Len(TurnResults) = 1
    /\ in_flight = 0
    /\ requests > 1

\* ------------------------------------------------------------------------
\* Properties of the backoff policy (SpecLoop)

Sleeping == loop_pc = "backoff"

\* C11: the sleep after a failed request of iteration i lasts
\* min(250 * 2^min(i, 6), 60000) + ((i * 137) mod 251) milliseconds, for every
\* iteration 0..59; 250 for iteration 0 and 637 for iteration 1.  The delay
\* is a function of i alone: every sleep of iteration i has this one length.
C11_BackoffDelayFormula ==
    Sleeping =>
        /\ iteration \in 0..59
        /\ delay_ms = Min(250 * Pow2(Min(iteration, 6)), 60000) + ((iteration * 137) % 251)
        /\ iteration = 0 => delay_ms = 250
        /\ iteration = 1 => delay_ms = 637

\* The request of the last iteration, 59, failed after tool turns and the
\* loop sleeps 16000 + 51 ms.
C11_Witness ==
    /\ Sleeping
    /\ iteration = 59
    /\ delay_ms = 16051
    /\ Len(messages) > 2

\* C12 as stated: the sleep of iteration 7 is as long as the sleep of
\* iteration 6.
C12_DelaySevenEqualsSix ==
    (Sleeping /\ iteration = 7) => delay_ms = BackoffDelay(6)

\* C12, amended: from iteration 6 on the exponent is clamped, so the part of
\* the delay before jitter is 250 * 2^6 = 16000 ms in iteration 7 as in
\* iteration 6; the delays differ by their jitter, 16069 ms for iteration 6
\* and 16206 ms for iteration 7.
C12_BaseDelayClamps ==
    (Sleeping /\ iteration >= 6) =>
        /\ delay_ms - ((iteration * 137) % 251) = 16000
        /\ iteration = 6 => delay_ms = 16069
        /\ iteration = 7 => delay_ms = 16206

\* The request of iteration 7 failed and the loop sleeps.
C12_Witness ==
    /\ Sleeping
    /\ iteration = 7
    /\ delay_ms = 16206

\* the step in which the request of the current iteration fails
RequestFails == loop_pc = "awaiting" /\ response'.kind \in {"error", "timeout"}

\* C19: a request that fails, by error or by timeout, is followed by exactly
\* one sleep, of BackoffDelay(i) for the iteration i of the loop counter that
\* the failed request belonged to; the step that ends the sleep moves the
\* counter to i + 1 and issues the request of that iteration (or, after
\* iteration 59, ends the loop in failed without a request); while the loop
\* sleeps no request is in flight and none is issued: requests are issued
\* only by a step that enters awaiting, one at a time, one per iteration.
C19_OneBackoffPerFailure ==
    /\ [][RequestFails =>
            /\ loop_pc' = "backoff"
            /\ delay_ms' = BackoffDelay(iteration)
            /\ iteration' = iteration
            /\ requests' = requests
            /\ in_flight' = 0]_vars
    /\ [](Sleeping =>
            /\ response.kind \in {"error", "timeout"}
            /\ delay_ms = BackoffDelay(iteration)
            /\ requests = iteration + 1
            /\ in_flight = 0)
    /\ [][Sleeping =>
            /\ iteration' = iteration + 1
            /\ IF iteration + 1 < MAX_TOOL_ITERATIONS
               THEN loop_pc' = "awaiting" /\ requests' = requests + 1
               ELSE loop_pc' = "failed" /\ requests' = requests]_vars
    /\ [][(requests' # requests) =>
            /\ loop_pc' = "awaiting"
            /\ requests' = requests + 1
            /\ iteration' = iteration + 1
            /\ requests' = iteration' + 1]_vars

\* a sleep after a timeout in iteration 1 whose iteration 0 was a turn with
\* one tool call: the first failure of the run sleeps delay(1), not delay(0)
C19_Witness ==
    /\ Sleeping
    /\ response.kind = "timeout"
    /\ iteration = 1
    /\ Len(messages) = 4
    /\ delay_ms = 637

\* C20: the step of a failed request and the sleep after it leave the
\* conversation as it was and execute no tool, and the iteration counter is
\* one higher when the sleep is over; as long as no request of a run has got
\* a response the conversation is the initial one, no tool has run, request
\* i + 1 is the one of iteration i, and the run is not done; such a run that
\* has ended is in failed with the maximum-iterations error after 60
\* iterations and exactly 60 requests, and one that has not ended can step.
C20_FailedRequestsOnlyConsumeBudget ==
    /\ [][(RequestFails \/ Sleeping) =>
            /\ messages' = messages
            /\ spawned' = spawned
            /\ loop_pc' # "executing"
            /\ iteration' = IF Sleeping THEN iteration + 1 ELSE iteration]_vars
    /\ [](~got_response =>
            /\ messages = <<SystemMsg, UserMsg("prompt")>>
            /\ spawned = 0
            /\ loop_pc \in {"awaiting", "backoff", "failed"}
            /\ IF loop_pc = "failed"
               THEN /\ iteration = MAX_TOOL_ITERATIONS
                    /\ requests = 60
                    /\ loop_ret = Some(MaxIterationsError)
               ELSE /\ iteration < MAX_TOOL_ITERATIONS
                    /\ requests = iteration + 1
                    /\ loop_ret = None
                    /\ LoopCanStep)

\* the end of a run in which every request failed
C20_Witness ==
    /\ loop_pc = "failed"
    /\ ~got_response
    /\ requests = 60
    /\ messages = <<SystemMsg, UserMsg("prompt")>>
    /\ response = NoResponse

\* ------------------------------------------------------------------------
\* Properties of the tool executor (SpecTool)

ToolReturned == tool_pc = "returned"

\* The texts a singular field and a plural field of the arguments supply, in
\* the order the arm reads them (the plural field, when present, an array of
\* strings), and those of them that survive trimming
SuppliedTexts(args, single, plural) ==
    (IF IsSome(GetStr(args, single)) THEN <<Unwrap(GetStr(args, single))>> ELSE <<>>)
    \o (IF IsSome(Get(args, plural))
        THEN [k \in 1..Len(Unwrap(Get(args, plural)).a) |-> Unwrap(Get(args, plural)).a[k].s]
        ELSE <<>>)
ArrayOfStrings(args, plural) ==
    IsSome(Get(args, plural)) =>
        /\ Unwrap(Get(args, plural)).t = "array"
        /\ \A k \in 1..Len(Unwrap(Get(args, plural)).a) : Unwrap(Get(args, plural)).a[k].t = "string"
RECURSIVE Surviving(_)
Surviving(texts) ==
    IF texts = <<>> THEN <<>>
    ELSE (IF \A k \in 1..Len(Head(texts)) : Head(texts)[k] \in Blank
          THEN <<>> ELSE <<Trim(Head(texts))>>) \o Surviving(Tail(texts))

\* C26: a delegate_subtask call below the depth ceiling whose array fields
\* hold strings only: the subtasks are the supplied texts of subtask and
\* subtasks (of prompt and prompts when those give none), each trimmed, the
\* ones empty after trimming dropped, in the supplied order. When none is
\* left the call fails and spawns no child; otherwise the batch is over
\* exactly these texts: a payload has one entry per text, in that order,
\* and at least one child and at most one per text is spawned.
C26_TrimAndDropEmpty ==
    (/\ tool_pc = "returned"
     /\ tool_call.name = "delegate_subtask"
     /\ "json" \in DOMAIN tool_call.arguments
     /\ depth < max_subdelegations) =>
        LET args == tool_call.arguments.json
            out == Unwrap(tool_out)
            primary == Surviving(SuppliedTexts(args, "subtask", "subtasks"))
            kept == IF primary # <<>> THEN primary
                    ELSE Surviving(SuppliedTexts(args, "prompt", "prompts"))
        IN (/\ args.t = "object"
            /\ ArrayOfStrings(args, "subtasks")
            /\ primary = <<>> => ArrayOfStrings(args, "prompts")) =>
              IF kept = <<>>
              THEN /\ ~out.ret.ok
                   /\ out.spawned = 0
                   /\ out.handler = None
              ELSE /\ out.spawned \in 1..Len(kept)
                   /\ \A k \in 1..Len(kept) : kept[k] # <<>> /\ kept[k] = Trim(kept[k])
                   /\ out.ret.ok =>
                         /\ out.spawned = Len(kept)
                         /\ out.ret.value.requested = Len(kept)
                         /\ Len(out.ret.value.results) = Len(kept)
                         /\ \A k \in 1..Len(kept) : out.ret.value.results[k].subtask = kept[k]

\* C35: a delegate_subtask call below the depth ceiling. A subtasks value
\* that is no array of strings fails the call without a child, whatever
\* subtask holds. Otherwise, when subtask and subtasks yield a text, the
\* batch is the trimmed subtask (if not empty) followed by the trimmed
\* non-empty entries of subtasks in order, whatever prompt and prompts hold,
\* even a prompts value that is no array; when they yield none, prompt and
\* prompts are read in the same way, and a prompts value that is no array of
\* strings fails the call.
C35_SubtaskFieldsPrecedence ==
    (/\ tool_pc = "returned"
     /\ tool_call.name = "delegate_subtask"
     /\ "json" \in DOMAIN tool_call.arguments
     /\ tool_call.arguments.json.t = "object"
     /\ depth < max_subdelegations) =>
        LET args == tool_call.arguments.json
            out == Unwrap(tool_out)
            BatchOver(texts) ==
                /\ out.spawned \in 1..Len(texts)
                /\ ~out.ret.ok => out.ret.error = "delegate subtask panicked"
                /\ out.ret.ok =>
                      /\ Len(out.ret.value.results) = Len(texts)
                      /\ \A k \in 1..Len(texts) : out.ret.value.results[k].subtask = texts[k]
        IN IF ~ArrayOfStrings(args, "subtasks")
           THEN /\ out.ret \in {Err("subtasks must be an array of strings"),
                                Err("subtasks must contain only strings")}
                /\ out.spawned = 0
           ELSE LET primary == Surviving(SuppliedTexts(args, "subtask", "subtasks")) IN
                IF primary # <<>> THEN BatchOver(primary)
                ELSE IF ~ArrayOfStrings(args, "prompts")
                THEN /\ out.ret \in {Err("prompts must be an array of strings"),
                                     Err("prompts must contain only strings")}
                     /\ out.spawned = 0
                ELSE LET alternate == Surviving(SuppliedTexts(args, "prompt", "prompts")) IN
                     IF alternate # <<>> THEN BatchOver(alternate)
                     ELSE ~out.ret.ok /\ out.spawned = 0

\* a call with subtask, subtasks, prompt and a prompts value that is a number
\* has returned the payload of the batch over the subtask and the two entries
C35_Witness ==
    /\ tool_pc = "returned"
    /\ tool_call.name = "delegate_subtask"
    /\ tool_call.arguments =
          JsonText(JObj(Field("subtask", Some(JStr(<<" ", "x", " ">>)))
                        @@ Field("subtasks", Some(JArr(<<JStr(<<"y">>), JStr(<<"z", "\n">>)>>)))
                        @@ Field("prompt", Some(JStr(<<"p", " ">>)))
                        @@ Field("prompts", Some(JNum(2)))))
    /\ Unwrap(tool_out).ret.ok
    /\ Len(Unwrap(tool_out).ret.value.results) = 3
    /\ Unwrap(tool_out).ret.value.results[1].subtask = <<"x">>
    /\ Unwrap(tool_out).ret.value.results[3].subtask = <<"z">>

\* a call with a valid subtask and a subtasks array that holds a number has
\* failed without a child
C35_WitnessBadArray ==
    /\ tool_pc = "returned"
    /\ tool_call.name = "delegate_subtask"
    /\ depth < max_subdelegations
    /\ "json" \in DOMAIN tool_call.arguments
    /\ GetStr(tool_call.arguments.json, "subtask") = Some(<<" ", "x", " ">>)
    /\ Get(tool_call.arguments.json, "subtasks") = Some(JArr(<<JStr(<<"y">>), JNum(5)>>))
    /\ Unwrap(tool_out).ret = Err("subtasks must contain only strings")
    /\ Unwrap(tool_out).spawned = 0

\* with blank subtask and empty subtasks the batch is over prompt and prompts
C35_WitnessAlternate ==
    /\ tool_pc = "returned"
    /\ tool_call.name = "delegate_subtask"
    /\ "json" \in DOMAIN tool_call.arguments
    /\ GetStr(tool_call.arguments.json, "subtask") = Some(<<" ">>)
    /\ Get(tool_call.arguments.json, "subtasks") = Some(JArr(<<>>))
    /\ Unwrap(tool_out).ret.ok
    /\ Len(Unwrap(tool_out).ret.value.results) = 2
    /\ Unwrap(tool_out).ret.value.results[1].subtask = <<"p">>
    /\ Unwrap(tool_out).ret.value.results[2].subtask = <<"q">>

\* a call with a subtask to trim and an array of one text to trim and one
\* empty text has returned the payload of a batch over the two trimmed texts
C26_Witness ==
    /\ tool_pc = "returned"
    /\ tool_call.name = "delegate_subtask"
    /\ tool_call.arguments =
          JsonText(JObj(Field("subtask", Some(JStr(<<" ", "x", " ">>)))
                        @@ Field("subtasks", Some(JArr(<<JStr(<<" ", "y">>), JStr(<<>>)>>)))
                        @@ Field("prompt", None) @@ Field("prompts", None)))
    /\ Unwrap(tool_out).ret.ok
    /\ Unwrap(tool_out).spawned = 2
    /\ Unwrap(tool_out).ret.value.results[1].subtask = <<"x">>
    /\ Unwrap(tool_out).ret.value.results[2].subtask = <<"y">>

\* a call whose texts are all blank has failed without a child
C26_WitnessEmpty ==
    /\ tool_pc = "returned"
    /\ tool_call.name = "delegate_subtask"
    /\ depth < max_subdelegations
    /\ tool_call.arguments =
          JsonText(JObj(Field("subtask", Some(JStr(<<" ">>)))
                        @@ Field("subtasks", Some(JArr(<<>>)))
                        @@ Field("prompt", None) @@ Field("prompts", None)))
    /\ ~Unwrap(tool_out).ret.ok
    /\ Unwrap(tool_out).spawned = 0

\* The required field a call with parsed arguments lacks or has with the
\* wrong type, first in the order the arm reads them, or "" when there is none
LackingField(name, args) ==
    CASE name = "read_file_full" ->
           IF ~IsSome(GetStr(args, "path")) THEN "path" ELSE ""
      [] name = "read_file_range" ->
           IF ~IsSome(GetStr(args, "path")) THEN "path"
           ELSE IF ~IsSome(GetU64(args, "start_line")) THEN "start_line"
           ELSE IF ~IsSome(GetU64(args, "end_line")) THEN "end_line"
           ELSE ""
      [] name = "search_text" ->
           IF ~IsSome(GetStr(args, "pattern")) THEN "pattern" ELSE ""
      [] OTHER -> ""
RequiresMessage ==
    [read_file_full |-> [path |-> "read_file_full requires path"],
     read_file_range |-> [path |-> "read_file_range requires path",
                          start_line |-> "read_file_range requires start_line",
                          end_line |-> "read_file_range requires end_line"],
     search_text |-> [pattern |-> "search_text requires pattern"]]

\* C27: a call whose arguments are no JSON fails with the parse error,
\* whatever its tool name; otherwise a call with an unknown tool name fails
\* as unsupported, whatever its arguments; otherwise a call that lacks a
\* required field, or has it with the wrong type, fails with the error that
\* names the first such field, whatever its path; in these three cases no
\* handler has run. A handler has run only for a call that passed the three
\* checks, and the tool message of every failed call holds the payload
\* {type: "tool_error", tool, arguments, message} under the id of the call.
C27_CheckOrder ==
    tool_pc = "returned" =>
        LET out == Unwrap(tool_out)
            parsed == "json" \in DOMAIN tool_call.arguments
            known == tool_call.name \in ToolIdentifiers
            lacking == IF parsed /\ known
                       THEN LackingField(tool_call.name, tool_call.arguments.json)
                       ELSE ""
        IN /\ ~parsed =>
                /\ out.ret = Err("invalid JSON arguments")
                /\ out.handler = None
           /\ parsed /\ ~known =>
                /\ out.ret = Err("unsupported tool call")
                /\ out.handler = None
           /\ lacking # "" =>
                /\ out.ret = Err(RequiresMessage[tool_call.name][lacking])
                /\ out.handler = None
           /\ IsSome(out.handler) => parsed /\ known /\ lacking = ""
           /\ ~out.ret.ok =>
                tool_msg = Some([role |-> "tool", tool_call_id |-> tool_call.id,
                                 content |->
                                    [type |-> "tool_error",
                                     tool |-> tool_call.name,
                                     arguments |-> IF parsed THEN tool_call.arguments.json
                                                   ELSE JStr(tool_call.arguments.garbage),
                                     message |-> out.ret.error]])

\* a call of an unknown tool with arguments that are no JSON has failed with
\* the parse error and its tool message holds the raw arguments as a string
C27_Witness ==
    /\ tool_pc = "returned"
    /\ tool_call.name = "write_file"
    /\ tool_call.arguments = Garbage
    /\ Unwrap(tool_out).ret = Err("invalid JSON arguments")
    /\ Unwrap(tool_msg).content.type = "tool_error"
    /\ Unwrap(tool_msg).content.arguments = JStr(Garbage.garbage)

\* a read_file_range call with a path outside the workspace and no
\* start_line has failed on the field, before the path was resolved
C27_WitnessField ==
    /\ tool_pc = "returned"
    /\ tool_call.name = "read_file_range"
    /\ "json" \in DOMAIN tool_call.arguments
    /\ GetStr(tool_call.arguments.json, "path") = Some(<<"out", "/", "f.txt">>)
    /\ ~IsSome(Get(tool_call.arguments.json, "start_line"))
    /\ Unwrap(tool_out).ret = Err("read_file_range requires start_line")
    /\ Unwrap(tool_out).handler = None
    /\ Unwrap(tool_msg).content.message = "read_file_range requires start_line"

\* The handler of each tool with a path, and the path text of a call that
\* has its required fields: the path argument, "." for list_directory
\* without one, none for search_text without one
HandlerOfTool ==
    [list_directory |-> "list_dir", read_file_full |-> "read_file_full",
     read_file_range |-> "read_file_range", search_text |-> "search_recursive"]
PathTextOf(name, args) ==
    IF IsSome(GetStr(args, "path")) THEN GetStr(args, "path")
    ELSE IF name = "list_directory" THEN Some(<<".">>) ELSE None

\* C29: a handler has run only for a filesystem or search call that has its
\* required fields, and the path it was given is the workspace root (a
\* search without a path) or what resolve_path returned for the path text of
\* the call, a path with the root as prefix. When that text names nothing,
\* or an entry outside the root, resolve_path fails, the call fails with
\* its error and no handler has run.
C29_HandlerPathsResolved ==
    tool_pc = "returned" =>
        LET out == Unwrap(tool_out)
            name == tool_call.name
            checked == /\ "json" \in DOMAIN tool_call.arguments
                       /\ name \in DOMAIN HandlerOfTool
                       /\ LackingField(name, tool_call.arguments.json) = ""
        IN /\ IsSome(out.handler) =>
                /\ checked
                /\ Unwrap(out.handler).name = HandlerOfTool[name]
                /\ StartsWith(Unwrap(out.handler).path, root)
                /\ IsCanonical(Unwrap(out.handler).path)
           /\ checked =>
                LET text == PathTextOf(name, tool_call.arguments.json) IN
                IF ~IsSome(text)
                THEN out.handler = Handler("search_recursive", root)
                ELSE LET relative == ParsePath(Unwrap(text))
                         target == Walk(IF relative.abs THEN RootInode ELSE InodeAt(root),
                                        relative.comps, MaxSymlinkHops)
                         resolved == ResolvePath(root, relative)
                     IN /\ (~target.ok \/ ~IsUnder(target.value, InodeAt(root))) => ~resolved.ok
                        /\ ~resolved.ok =>
                              /\ out.ret = Err(resolved.error)
                              /\ out.handler = None
                        /\ resolved.ok =>
                              out.handler = Handler(HandlerOfTool[name], resolved.value)

\* a search under a path that a symbolic link takes out of the workspace has
\* failed before the search ran
C29_Witness ==
    /\ tool_pc = "returned"
    /\ tool_call.name = "search_text"
    /\ "json" \in DOMAIN tool_call.arguments
    /\ GetStr(tool_call.arguments.json, "pattern") = Some(<<"beta">>)
    /\ GetStr(tool_call.arguments.json, "path") = Some(<<"out">>)
    /\ Unwrap(tool_out).ret = Err("path escapes workspace root")
    /\ Unwrap(tool_out).handler = None

\* a search without a path has run on the workspace root
C29_WitnessRoot ==
    /\ tool_pc = "returned"
    /\ tool_call.name = "search_text"
    /\ "json" \in DOMAIN tool_call.arguments
    /\ GetStr(tool_call.arguments.json, "pattern") = Some(<<"beta">>)
    /\ ~IsSome(Get(tool_call.arguments.json, "path"))
    /\ Unwrap(tool_out).handler = Handler("search_recursive", root)

\* a file named by a path that does not exist was not read
C29_WitnessMissing ==
    /\ tool_pc = "returned"
    /\ tool_call.name = "read_file_full"
    /\ "json" \in DOMAIN tool_call.arguments
    /\ GetStr(tool_call.arguments.json, "path") = Some(<<"missing">>)
    /\ Unwrap(tool_out).ret = Err("failed to canonicalize resolved path")
    /\ Unwrap(tool_out).handler = None

\* The lines joined by "\n", without a trailing "\n"
RECURSIVE JoinLines(_)
JoinLines(ls) ==
    IF ls = <<>> THEN <<>>
    ELSE IF Len(ls) = 1 THEN ls[1]
    ELSE ls[1] \o <<"\n">> \o JoinLines(Tail(ls))

\* C30: read_file_range(path, s, e), called for a file of n lines, fails when
\* s = 0, when e < s and when s > n; otherwise it returns the lines s to
\* min(e, n) of the file, joined by "\n" with none at the end, and reports
\* start_line = s and end_line = min(e, n).
C30_ReadFileRange ==
    (/\ tool_pc = "returned"
     /\ tool_call.name = "read_file_range"
     /\ IsSome(Unwrap(tool_out).handler)) =>
        LET out == Unwrap(tool_out)
            s == Unwrap(GetU64(tool_call.arguments.json, "start_line"))
            e == Unwrap(GetU64(tool_call.arguments.json, "end_line"))
            ls == Lines(FsContent(InodeAt(Unwrap(out.handler).path)))
            n == Len(ls)
        IN IF s = 0 \/ e < s \/ s > n
           THEN ~out.ret.ok
           ELSE /\ out.ret.ok
                /\ out.ret.value.start_line = s
                /\ out.ret.value.end_line = Min(e, n)
                /\ out.ret.value.content = JoinLines(SubSeq(ls, s, Min(e, n)))
                /\ Lines(out.ret.value.content) = [k \in 1..(Min(e, n) - s + 1) |-> ls[s + k - 1]]
                /\ out.ret.value.content[Len(out.ret.value.content)] # "\n"

\* lines 2 to 5 were asked of the file of three lines: lines 2 and 3 came back
C30_Witness ==
    /\ tool_pc = "returned"
    /\ tool_call.name = "read_file_range"
    /\ IsSome(Unwrap(tool_out).handler)
    /\ GetU64(tool_call.arguments.json, "start_line") = Some(2)
    /\ GetU64(tool_call.arguments.json, "end_line") = Some(5)
    /\ Unwrap(tool_out).ret.ok
    /\ Unwrap(tool_out).ret.value.start_line = 2
    /\ Unwrap(tool_out).ret.value.end_line = 3
    /\ Unwrap(tool_out).ret.value.content = <<"beta", "\n", "gamma">>

\* a range that starts after the last line of the file was refused
C30_WitnessNoOverlap ==
    /\ tool_pc = "returned"
    /\ tool_call.name = "read_file_range"
    /\ IsSome(Unwrap(tool_out).handler)
    /\ GetU64(tool_call.arguments.json, "start_line") = Some(5)
    /\ GetU64(tool_call.arguments.json, "end_line") = Some(5)
    /\ ~Unwrap(tool_out).ret.ok

\* C4: an Agent whose depth has reached max_subdelegations gets an error
\* from every delegate_subtask call, whatever its arguments, and spawns no
\* child Agent.
C4_DepthCeiling ==
    (ToolReturned /\ tool_call.name = "delegate_subtask" /\ depth >= max_subdelegations) =>
        /\ ~Unwrap(tool_out).ret.ok
        /\ Unwrap(tool_out).spawned = 0

\* An Agent at the default ceiling refused a call that names two subtasks.
C4_Witness ==
    /\ ToolReturned
    /\ tool_call.name = "delegate_subtask"
    /\ depth = max_subdelegations
    /\ max_subdelegations = DEFAULT_MAX_SUBDELEGATIONS
    /\ "json" \in DOMAIN tool_call.arguments
    /\ CollectSubtasks(tool_call.arguments.json, "subtask", "subtasks").ok
    /\ Len(CollectSubtasks(tool_call.arguments.json, "subtask", "subtasks").value) >= 2
    /\ Unwrap(tool_out).ret = Err("delegate_subtask limit reached")

====
